---------------------------- MODULE Spec2Model ----------------------------
(***************************************************************************)
(* Model of the market-data collection engine: the rate-limit tracker,     *)
(* the adaptive scheduler, the per-ticker polling loop and the             *)
(* data-collection coordinator.                                            *)
(*                                                                         *)
(* Time.  The wall clock `now' is kept in milliseconds.  The Go code reads *)
(* it as time.Now().Unix(), whole seconds, everywhere in the tracker and   *)
(* the scheduler; Unix is that reading.  Durations the code keeps as       *)
(* float64 seconds are kept here in whole seconds when they come from      *)
(* Unix() and in milliseconds when they are intervals (1.5 s = 1500).      *)
(***************************************************************************)
EXTENDS Integers, Sequences, FiniteSets, TLC

(***************************************************************************)
(* Bounds of the model.                                                    *)
(***************************************************************************)
MaxTrackerSecs == 7      \* horizon of the tracker specification, seconds
MaxErrs == 2             \* 429s injected in the tracker specification
MaxHistory == 2          \* requests recorded in the tracker specification
MaxLimit == 2            \* largest X-RateLimit-Limit value a header carries
MaxRingSteps == 3        \* clock steps of the 429-ring specification
MaxRingErrs == 101       \* 429s of one window in the 429-ring specification
RingStepSecs == 30       \* length of a clock step of the 429-ring specification
MaxThrottleSteps == 3    \* clock steps of the light-throttle specification
MaxThrottleErrs == 5     \* 429s of one window in the light-throttle specification
MaxEnabled == 21         \* longest list of enabled tickers of the interval specification
MaxEngineSecs == 1       \* horizon of the engine specification, seconds
MaxEngineErrs == 1       \* 429s reported to the tracker in the engine specification
MaxEngineHistory == 1    \* requests reported to the tracker in the engine specification
MaxWrites == 3           \* WriteDataEntry calls of the writer specification
MaxWriterSecs == 2       \* horizon of the writer specification, seconds
MaxFlushFailures == 1    \* failing transactions of the writer specification
MaxFlusherSecs == 4      \* horizon of the background flusher specification, seconds
MaxEnqueues == 2         \* Enqueue calls of the write queue specification
MaxGoroutines == 2       \* goroutines the polling loop specification starts
MaxDates == 2            \* date changes of the rollover specification
MaxMonitorTicks == 3     \* ticks of the rollover monitor
MaxRolloverWrites == 2   \* WriteDataEntry calls of the rollover specification
MaxLoopSecs == 2
MaxPollGoroutines == 3
MaxPollSteps == 2
PollStepSecs == 60
MaxPanics == 1         \* horizon of the polling loop specification, seconds

(***************************************************************************)
(* Program constants.                                                      *)
(***************************************************************************)
RateLimitWindow == 60            \* rateLimitWindow, seconds
RequestHistoryCap == 2000        \* cap of requestTimes
RateLimitErrorsCap == 100        \* cap of rateLimitErrors
RateLimitErrorThreshold == 5     \* rateLimitErrorThreshold
LightThrottleIntervalMs == 200   \* lightThrottleInterval, 0.2 s
ErrorWindow == 60                \* window of updateLightThrottleStatus, seconds
DefaultRetry == 60               \* default wait of HandleRateLimitError, seconds
EndpointGC == 1                  \* age at which RecordEndpointCall drops an entry

Endpoints == {"classic_zero", "classic_zero_majors"}

VARIABLES
  now,                    \* wall clock, milliseconds
  \* RateLimitTracker
  requestTimes,           \* sequence of request times (seconds)
  rateLimitMaxRequests,   \* 0 = unknown
  rateLimitRemaining,
  rateLimitResetTime,     \* seconds, 0 = unknown
  isRateLimited,
  retryAfter,             \* absolute seconds, 0 = none
  rateLimitErrors,        \* sequence of 429 timestamps (seconds)
  lightThrottleEnabled,
  lastEndpointCallTimes,  \* endpoint -> seconds, a partial map
  \* observations
  ret,                    \* the last tracker call and what it returned
  lastHandle,             \* the last HandleRateLimitError: when, with what
  errLog,                 \* 429 timestamps of the last 60 s, kept apart from the ring
  prevThrottle,           \* lightThrottleEnabled before the last HandleRateLimitError
  failSince,              \* a failed request was recorded since the last 429
  \* UnifiedAdaptiveScheduler, its settings and the chart tracker
  lastFetchTimes,         \* ticker -> seconds, a partial map
  enabledTickers,         \* sequence of tickers
  tickerConfigs,          \* settings.TickerConfigs: ticker -> TickerConfig, a partial map
  endpointFetchTimes,     \* endpoint -> seconds, a partial map
  displayedTickers,       \* ChartTracker.displayedTickers, what getOpenCharts returns
  intervalRet,            \* the last CalculateInterval call and what it returned
  \* PerTickerScheduler, DataCollectionCoordinator, PriorityWriteQueue
  marketOpen,             \* what utils.IsMarketOpen() returns at the present time
  shuttingDown,           \* what getShuttingDown() returns
  workers,                \* ticker -> its goroutine: where it is, when its timer is due
  queries,                \* ticker -> the query goroutines of its running batch
  tickersInProgress,      \* set of tickers marked in progress
  pendingWrites,          \* write queue: ticker -> its latest task, a partial map
  \* observations of the HTTP traffic
  lastReq,                \* endpoint -> time of its last GET (ms), a partial map
  windowLog,              \* times (ms) of the latest GETs issued while max_requests was known
  \* DataWriter and its databases
  writerPending,          \* DataWriter.pendingWrites: ticker -> sequence of PendingWrite
  firstPendingTime,       \* ticker -> time (ms) of the first pending write, a partial map
  lastFlushTime,          \* ticker -> time (ms) of the last flush, a partial map
  dbRows,                 \* the database files: date -> (timestamp -> row), partial maps
  flushes,                \* the FlushTicker calls in progress
  closePc,                \* where DataWriter.Close is
  bgDue,                  \* the background flusher's one-second ticker has fired
  \* observations of the writer
  accepted,               \* number of writes WriteDataEntry has accepted
  settled,                \* ids of the writes that were part of a committed transaction
  flushRet,               \* what the last FlushTicker call to return an error left behind
  \* PriorityWriteQueue (its map is pendingWrites)
  dispatching,            \* ticker -> number of processTask goroutines started and not yet run
  handing,                \* the tasks processTask goroutines have taken, and where each goroutine is
  \* observations of the write queue
  enqueueLog,             \* the Enqueue calls so far: ticker, timestamp, time of the call
  replaced,               \* scalars of the tasks an Enqueue overwrote in the map
  handed,                 \* the tasks passed to WriteDataEntry: scalars, number of the call
  critLog,                \* scalars of the tasks a CRITICAL log entry was written for
  \* PerTickerScheduler
  goroutines,             \* the runTickerGoroutine goroutines started so far, in order
  tickerGoroutines,       \* ticker -> index of its goroutine, a partial map
  \* the date rollover monitor of the coordinator
  marketDate,             \* what utils.GetMarketDate() returns, a day number
  currentMarketDate,      \* the tracked date
  monitor,                \* where checkDateRollover is, and its newDate
  rolloverLog,            \* what the monitor did so far, in order
  \* ServiceShutdown and the goroutine of the date rollover monitor
  shutdownPc,             \* where ServiceShutdown is
  dateMonitorStopChan,    \* the coordinator's field: "nil" or the channel made by Start
  stopChanClosed,         \* the channel made by Start was closed
  monitorLoop,            \* where dateRolloverMonitor is, and the channel its select waits on
  \* PerTickerScheduler
  isRunning,              \* Start was called and Stop was not
  lastReady,              \* the last onTickerReady call: by which goroutine, where, the market
  lastCall,               \* the last Start, Stop or UpdateTickers call, and the last list
  \* package utils: the argument of a function under test, and its result
  arg,
  res,                    \* << >> before the call, <<result>> after it
  connections,            \* ConnectionPool.connections: path -> lastUsed (ms), a partial map
  cache,                  \* QueryCache.cache: key -> entry, a partial map
  accessOrder,            \* QueryCache.accessOrder
  useOrder                \* the cached keys, the least recently set or returned first

trackerVars == <<requestTimes, rateLimitMaxRequests, rateLimitRemaining,
                 rateLimitResetTime, isRateLimited, retryAfter, rateLimitErrors,
                 lightThrottleEnabled, lastEndpointCallTimes>>
obsVars == <<ret, lastHandle, errLog, prevThrottle, failSince>>
schedVars == <<lastFetchTimes, enabledTickers, tickerConfigs, endpointFetchTimes,
               displayedTickers, intervalRet>>
engineVars == <<marketOpen, shuttingDown, workers, queries, tickersInProgress, pendingWrites>>
httpVars == <<lastReq, windowLog>>
writerVars == <<writerPending, firstPendingTime, lastFlushTime, dbRows, flushes, closePc, bgDue,
                accepted, settled, flushRet>>
queueVars == <<dispatching, handing, enqueueLog, replaced, handed, critLog>>
loopVars == <<goroutines, tickerGoroutines>>
rolloverVars == <<marketDate, currentMarketDate, monitor, rolloverLog>>
shutdownVars == <<shutdownPc, dateMonitorStopChan, stopChanClosed, monitorLoop>>
poolVars == <<connections>>
cacheVars == <<cache, accessOrder, useOrder>>
utilVars == <<arg, res, poolVars, cacheVars>>
serviceVars == <<shutdownVars, isRunning, lastReady, lastCall, utilVars>>
storeVars == <<writerVars, queueVars, loopVars, rolloverVars, serviceVars>>
otherVars == <<now, schedVars, engineVars, httpVars, storeVars>>
vars == <<now, trackerVars, obsVars, schedVars, engineVars, httpVars, storeVars>>

Unix == now \div 1000

NoCall == [op |-> "none", val |-> FALSE, at |-> 0]
NoHandle == [at |-> -1, r |-> 0]

(***************************************************************************)
(* NewRateLimitTracker.                                                    *)
(***************************************************************************)
NewRateLimitTracker ==
  /\ requestTimes = << >>
  /\ rateLimitMaxRequests = 0
  /\ rateLimitRemaining = 0
  /\ rateLimitResetTime = 0
  /\ isRateLimited = FALSE
  /\ retryAfter = 0
  /\ rateLimitErrors = << >>
  /\ lightThrottleEnabled = FALSE
  /\ lastEndpointCallTimes = << >>

InitObs ==
  /\ ret = NoCall
  /\ lastHandle = NoHandle
  /\ errLog = << >>
  /\ prevThrottle = FALSE
  /\ failSince = FALSE

(***************************************************************************)
(* Response headers: a partial map from header name to the parsed value.   *)
(* A value that does not pass the header's test is ignored.                *)
(***************************************************************************)
NoHeaders == << >>
HeaderSet ==
  {NoHeaders}
  \cup {[h \in {"X-RateLimit-Limit"} |-> l] : l \in 0..MaxLimit}
  \cup {[h \in {"X-RateLimit-Limit", "X-RateLimit-Remaining", "X-RateLimit-Reset"} |->
           IF h = "X-RateLimit-Limit" THEN MaxLimit
           ELSE IF h = "X-RateLimit-Remaining" THEN 0 ELSE 3]}

HasHeader(headers, h) == h \in DOMAIN headers

updateFromHeaders(headers) ==
  [limit |-> IF HasHeader(headers, "X-RateLimit-Limit") /\ headers["X-RateLimit-Limit"] > 0
             THEN headers["X-RateLimit-Limit"] ELSE rateLimitMaxRequests,
   remaining |-> IF HasHeader(headers, "X-RateLimit-Remaining") /\ headers["X-RateLimit-Remaining"] >= 0
                 THEN headers["X-RateLimit-Remaining"] ELSE rateLimitRemaining,
   reset |-> IF HasHeader(headers, "X-RateLimit-Reset") /\ headers["X-RateLimit-Reset"] > 0
             THEN headers["X-RateLimit-Reset"] ELSE rateLimitResetTime]

TrimHistory(times, requestTime) ==
  IF Len(times) > RequestHistoryCap
  THEN SelectSeq(times, LAMBDA t : t > requestTime - RateLimitWindow)
  ELSE times

(***************************************************************************)
(* RecordRequest(requestTime, success, headers).                           *)
(***************************************************************************)
RecordRequestFlag(success, limit, history) ==
  IF ~success THEN TRUE
  ELSE IF limit > 0 /\ Len(history) >= limit THEN TRUE
  ELSE FALSE

RecordRequest(requestTime, success, headers) ==
  LET history == TrimHistory(Append(requestTimes, requestTime), requestTime)
      hdr == IF headers # NoHeaders THEN updateFromHeaders(headers)
             ELSE [limit |-> rateLimitMaxRequests, remaining |-> rateLimitRemaining,
                   reset |-> rateLimitResetTime]
  IN /\ requestTimes' = history
     /\ rateLimitMaxRequests' = hdr.limit
     /\ rateLimitRemaining' = hdr.remaining
     /\ rateLimitResetTime' = hdr.reset
     /\ isRateLimited' = RecordRequestFlag(success, hdr.limit, history)
     /\ UNCHANGED <<retryAfter, rateLimitErrors, lightThrottleEnabled, lastEndpointCallTimes>>
     /\ ret' = [op |-> "RecordRequest", val |-> success, at |-> now]
     /\ failSince' = (failSince \/ ~success)
     /\ UNCHANGED <<lastHandle, errLog, prevThrottle>>
     /\ UNCHANGED otherVars

(***************************************************************************)
(* updateLightThrottleStatus(currentTime), on the ring `errors'.           *)
(***************************************************************************)
PruneErrors(errors, currentTime) ==
  SelectSeq(errors, LAMBDA t : t > currentTime - ErrorWindow)

\* the decision with the switch-off test reading "at most half the threshold"
ThrottleDecisionOffByOne(enabled, errorCount) ==
  IF errorCount >= RateLimitErrorThreshold THEN TRUE
  ELSE IF enabled /\ errorCount <= RateLimitErrorThreshold \div 2 THEN FALSE
  ELSE enabled

ThrottleDecision(enabled, errorCount) ==
  IF errorCount >= RateLimitErrorThreshold THEN TRUE
  ELSE IF enabled /\ errorCount < RateLimitErrorThreshold \div 2 THEN FALSE
  ELSE enabled

updateLightThrottleStatus(errors, enabled, currentTime) ==
  LET newErrors == PruneErrors(errors, currentTime)
  IN [errors |-> newErrors, enabled |-> ThrottleDecision(enabled, Len(newErrors))]

PushError(errors, currentTime) ==
  LET appended == Append(errors, currentTime)
  IN IF Len(appended) > RateLimitErrorsCap THEN Tail(appended) ELSE appended

RetryHorizon(r, currentTime) ==
  IF r > 0 THEN currentTime + r
  ELSE IF rateLimitResetTime > 0 THEN rateLimitResetTime
  ELSE currentTime + DefaultRetry

(***************************************************************************)
(* HandleRateLimitError(retryAfter).                                       *)
(***************************************************************************)
HandleRateLimitError(r) ==
  LET currentTime == Unix
      st == updateLightThrottleStatus(PushError(rateLimitErrors, currentTime),
                                      lightThrottleEnabled, currentTime)
  IN /\ isRateLimited' = TRUE
     /\ rateLimitErrors' = st.errors
     /\ lightThrottleEnabled' = st.enabled
     /\ retryAfter' = RetryHorizon(r, currentTime)
     /\ UNCHANGED <<requestTimes, rateLimitMaxRequests, rateLimitRemaining,
                    rateLimitResetTime, lastEndpointCallTimes>>
     /\ ret' = [op |-> "HandleRateLimitError", val |-> TRUE, at |-> now]
     /\ lastHandle' = [at |-> now, r |-> r]
     /\ errLog' = Append(SelectSeq(errLog, LAMBDA t : currentTime - t < 60), currentTime)
     /\ prevThrottle' = lightThrottleEnabled
     /\ failSince' = FALSE
     /\ UNCHANGED otherVars

(***************************************************************************)
(* CanMakeRequestWithLightThrottle(endpoint).  A missing map entry reads   *)
(* as 0, as a Go map does.                                                 *)
(***************************************************************************)
LastCall(endpoint) ==
  IF endpoint \in DOMAIN lastEndpointCallTimes THEN lastEndpointCallTimes[endpoint] ELSE 0

CanMakeRequestWithLightThrottleResult(endpoint) ==
  IF ~lightThrottleEnabled THEN TRUE
  ELSE (Unix - LastCall(endpoint)) * 1000 >= LightThrottleIntervalMs

CanMakeRequestWithLightThrottle(endpoint) ==
  /\ ret' = [op |-> "CanMakeRequestWithLightThrottle",
             val |-> CanMakeRequestWithLightThrottleResult(endpoint), at |-> now]
  /\ UNCHANGED <<trackerVars, lastHandle, errLog, prevThrottle, failSince>>
  /\ UNCHANGED otherVars

(***************************************************************************)
(* RecordEndpointCall(endpoint).                                           *)
(***************************************************************************)
RecordEndpointCallMap(endpoint) ==
  IF lightThrottleEnabled
  THEN LET currentTime == Unix
           keep == {ep \in (DOMAIN lastEndpointCallTimes) \ {endpoint} :
                      ~(lastEndpointCallTimes[ep] < currentTime - EndpointGC)}
       IN [ep \in keep \cup {endpoint} |->
             IF ep = endpoint THEN currentTime ELSE lastEndpointCallTimes[ep]]
  ELSE lastEndpointCallTimes

RecordEndpointCall(endpoint) ==
  /\ lastEndpointCallTimes' = RecordEndpointCallMap(endpoint)
  /\ UNCHANGED <<requestTimes, rateLimitMaxRequests, rateLimitRemaining, rateLimitResetTime,
                 isRateLimited, retryAfter, rateLimitErrors, lightThrottleEnabled>>
  /\ ret' = [op |-> "RecordEndpointCall", val |-> lightThrottleEnabled, at |-> now]
  /\ UNCHANGED <<lastHandle, errLog, prevThrottle, failSince>>
  /\ UNCHANGED otherVars

(***************************************************************************)
(* IsRateLimited(): clears the flag and the horizon once the horizon has   *)
(* elapsed, then reports the flag.                                         *)
(***************************************************************************)
RetryElapsed == retryAfter > 0 /\ Unix >= retryAfter

IsRateLimited ==
  /\ isRateLimited' = IF RetryElapsed THEN FALSE ELSE isRateLimited
  /\ retryAfter' = IF RetryElapsed THEN 0 ELSE retryAfter
  /\ UNCHANGED <<requestTimes, rateLimitMaxRequests, rateLimitRemaining, rateLimitResetTime,
                 rateLimitErrors, lightThrottleEnabled, lastEndpointCallTimes>>
  /\ ret' = [op |-> "IsRateLimited", val |-> isRateLimited', at |-> now]
  /\ UNCHANGED <<lastHandle, errLog, prevThrottle, failSince>>
  /\ UNCHANGED otherVars

(***************************************************************************)
(* CanMakeRequest().                                                       *)
(***************************************************************************)
CanMakeRequestResult ==
  IF isRateLimited THEN FALSE
  ELSE IF rateLimitMaxRequests > 0 THEN Len(requestTimes) < rateLimitMaxRequests
  ELSE TRUE

CanMakeRequest ==
  /\ ret' = [op |-> "CanMakeRequest", val |-> CanMakeRequestResult, at |-> now]
  /\ UNCHANGED <<trackerVars, lastHandle, errLog, prevThrottle, failSince>>
  /\ UNCHANGED otherVars

(***************************************************************************)
(* The clock.                                                              *)
(***************************************************************************)
Advance(d) ==
  /\ now' = now + d
  /\ UNCHANGED <<trackerVars, storeVars, obsVars, schedVars, engineVars, httpVars>>

(***************************************************************************)
(* UnifiedAdaptiveScheduler.  Tickers are numbered; a TickerConfig keeps   *)
(* its Priority string and its RefreshRateMs pointer, << >> for nil and    *)
(* <<v>> for a value.                                                      *)
(***************************************************************************)
NoInterval == [ticker |-> 0, priority |-> -1, interval |-> 0, limit |-> 0]

NewUnifiedAdaptiveScheduler ==
  /\ lastFetchTimes = << >>
  /\ endpointFetchTimes = << >>
  /\ intervalRet = NoInterval

InList(list, x) == \E i \in 1..Len(list) : list[i] = x

\* the rule with the configuration record consulted only for enabled tickers
getTickerPriorityEnabledOnly(ticker, openCharts) ==
  IF ticker \in openCharts THEN 0
  ELSE IF ticker \in DOMAIN tickerConfigs /\ InList(enabledTickers, ticker)
       THEN CASE tickerConfigs[ticker].Priority = "high" -> 0
              [] tickerConfigs[ticker].Priority = "low" -> 2
              [] OTHER -> 1
       ELSE IF InList(enabledTickers, ticker) THEN 1
       ELSE 2

\* getTickerPriority: 0 = high, 1 = medium, 2 = low
getTickerPriority(ticker, openCharts) ==
  IF ticker \in openCharts THEN 0
  ELSE IF ticker \in DOMAIN tickerConfigs
       THEN CASE tickerConfigs[ticker].Priority = "high" -> 0
              [] tickerConfigs[ticker].Priority = "low" -> 2
              [] OTHER -> 1
       ELSE IF InList(enabledTickers, ticker) THEN 1
       ELSE 2

getTickerRefreshRate(ticker) ==
  IF ticker \in DOMAIN tickerConfigs /\ tickerConfigs[ticker].RefreshRateMs # << >>
  THEN LET rate == tickerConfigs[ticker].RefreshRateMs[1]
       IN IF rate = 0 THEN 0
          ELSE IF rate < 1000 THEN 1000
          ELSE rate
  ELSE 0

\* the floor without the factor of the ticker count
GetMinimumIntervalUnscaled(tickerCount) ==
  IF rateLimitMaxRequests <= 0 THEN 0
  ELSE (RateLimitWindow * 1000) \div rateLimitMaxRequests

\* GetMinimumInterval, in milliseconds; the limits a header carries here divide
\* the window, so the quotient is the float quotient of the code
GetMinimumInterval(tickerCount) ==
  IF rateLimitMaxRequests <= 0 THEN 0
  ELSE LET minInterval == (RateLimitWindow * 1000) \div rateLimitMaxRequests
       IN IF tickerCount > 0 THEN minInterval * tickerCount ELSE minInterval

PriorityInterval(priority, tickerCount) ==
  CASE priority = 0 -> 1000
    [] priority = 1 -> IF tickerCount <= 5 THEN 6000
                       ELSE IF tickerCount <= 20 THEN 10000 ELSE 15000
    [] OTHER -> IF tickerCount <= 5 THEN 16000
                ELSE IF tickerCount <= 20 THEN 22000 ELSE 30000

\* CalculateInterval, in milliseconds
CalculateInterval(ticker, openCharts) ==
  LET priority == getTickerPriority(ticker, openCharts)
      tickerCount == Len(enabledTickers)
      refreshRateMs == getTickerRefreshRate(ticker)
      interval == IF refreshRateMs > 0 THEN refreshRateMs
                  ELSE PriorityInterval(priority, tickerCount)
      minInterval == GetMinimumInterval(tickerCount)
  IN IF minInterval > 0 /\ interval < minInterval THEN minInterval ELSE interval

LastFetch(ticker) ==
  IF ticker \in DOMAIN lastFetchTimes THEN lastFetchTimes[ticker] ELSE 0

ShouldFetchTicker(ticker, openCharts) ==
  LET calculated == CalculateInterval(ticker, openCharts)
      interval == IF calculated <= 0 THEN 5000 ELSE calculated
  IN IF LastFetch(ticker) = 0 THEN TRUE
     ELSE (Unix - LastFetch(ticker)) * 1000 >= interval

\* the map after m[key] = value
MapSet(m, key, value) ==
  [k \in (DOMAIN m) \cup {key} |-> IF k = key THEN value ELSE m[k]]

\* the record holding the time since the previous fetch instead of the time
RecordFetchElapsed(ticker) == MapSet(lastFetchTimes, ticker, Unix - LastFetch(ticker))

\* RecordFetch: lastFetchTimes after the call
RecordFetch(ticker) == MapSet(lastFetchTimes, ticker, Unix)

LastEndpointFetch(endpoint) ==
  IF endpoint \in DOMAIN endpointFetchTimes THEN endpointFetchTimes[endpoint] ELSE 0

\* MIN_ENDPOINT_INTERVAL, seconds
MinEndpointInterval == 1

CanFetchEndpoint(endpoint) == Unix - LastEndpointFetch(endpoint) >= MinEndpointInterval

\* RecordEndpointFetch: endpointFetchTimes after the call
RecordEndpointFetch(endpoint) == MapSet(endpointFetchTimes, endpoint, Unix)

(***************************************************************************)
(* DataWriter.  A timestamp is in milliseconds; a pending write carries    *)
(* the number of the WriteDataEntry call that made it, its timestamp, its   *)
(* market date and its scalars, which here are one number.  The market     *)
(* date of a timestamp is its day: the timestamps used are on trading days.*)
(***************************************************************************)
MarketDay == 86400000           \* milliseconds of a day
DedupTolerance == 100           \* tolerance of flushDate, ms
FileWriteCountThresholdCollection == 5
FileWriteIntervalCollectionSec == 2

NoFlushRet == [err |-> FALSE, uncommitted |-> {}, requeued |-> {}, failures |-> 0]

NewDataWriter ==
  /\ writerPending = << >>
  /\ firstPendingTime = << >>
  /\ lastFlushTime = << >>
  /\ dbRows = << >>
  /\ flushes = << >>
  /\ closePc = "idle"
  /\ bgDue = FALSE
  /\ accepted = 0
  /\ settled = {}
  /\ flushRet = NoFlushRet

\* the market date of a timestamp, as a day number
DateOf(timestamp) == timestamp \div MarketDay

Pending(ticker) == IF ticker \in DOMAIN writerPending THEN writerPending[ticker] ELSE << >>

Ids(writes) == {writes[i].id : i \in DOMAIN writes}

\* shouldFlush(ticker, isActive), on given pending writes and first-pending times
shouldFlushOn(pending, firstPending, ticker, isActive) ==
  IF Len(pending) = 0 THEN FALSE
  ELSE IF isActive THEN TRUE
  ELSE IF Len(pending) >= FileWriteCountThresholdCollection THEN TRUE
  ELSE IF ticker \notin DOMAIN firstPending THEN TRUE
  ELSE now - firstPending[ticker] >= FileWriteIntervalCollectionSec * 1000

shouldFlush(ticker, isActive) ==
  shouldFlushOn(Pending(ticker), firstPendingTime, ticker, isActive)

\* a FlushTicker call that has not yet taken the pending writes
NewFlush(by, ticker) == [by |-> by, ticker |-> ticker, pc |-> "start", groups |-> << >>]

RemoveAt(seq, i) == SubSeq(seq, 1, i - 1) \o SubSeq(seq, i + 1, Len(seq))

\* WriteDataEntry(ticker, timestamp, data, isActive): the write is appended,
\* and FlushTicker is started in a goroutine when the ticker has never been
\* flushed or shouldFlush says so
WriteDataEntryEffect(ticker, timestamp, data, isActive) ==
  LET write == [id |-> accepted + 1, Timestamp |-> timestamp, Scalars |-> data,
                Date |-> DateOf(timestamp)]
      pending == Append(Pending(ticker), write)
      firstPending == IF Len(pending) = 1 THEN MapSet(firstPendingTime, ticker, now)
                      ELSE firstPendingTime
      hasFlushHistory == ticker \in DOMAIN lastFlushTime
      flushNow == IF ~hasFlushHistory THEN TRUE
                  ELSE shouldFlushOn(pending, firstPending, ticker, isActive)
  IN /\ writerPending' = MapSet(writerPending, ticker, pending)
     /\ firstPendingTime' = firstPending
     /\ accepted' = accepted + 1
     /\ flushes' = IF flushNow THEN Append(flushes, NewFlush("write", ticker)) ELSE flushes
     /\ UNCHANGED <<lastFlushTime, dbRows, closePc, bgDue, settled, flushRet>>

\* FlushTicker, first part, under the lock: nothing to do without pending
\* writes; else they are taken and grouped by date
groupByDate(pending) ==
  [d \in {pending[i].Date : i \in DOMAIN pending} |->
     SelectSeq(pending, LAMBDA w : w.Date = d)]

FlushTake(i) ==
  LET f == flushes[i]
      pending == Pending(f.ticker)
  IN /\ f.pc = "start"
     /\ IF Len(pending) = 0
        THEN /\ flushes' = RemoveAt(flushes, i)
             /\ closePc' = IF f.by = "close" THEN "closing" ELSE closePc
             /\ UNCHANGED <<writerPending, firstPendingTime, lastFlushTime>>
        ELSE /\ flushes' = [flushes EXCEPT ![i] = [f EXCEPT !.pc = "dates",
                                                            !.groups = groupByDate(pending)]]
             /\ writerPending' = MapSet(writerPending, f.ticker, << >>)
             /\ firstPendingTime' = [t \in DOMAIN firstPendingTime \ {f.ticker} |->
                                       firstPendingTime[t]]
             /\ lastFlushTime' = MapSet(lastFlushTime, f.ticker, now)
             /\ UNCHANGED closePc
     /\ UNCHANGED <<dbRows, bgDue, accepted, settled, flushRet>>

\* the exchange sort of deduplicateWrites
RECURSIVE SortInner(_, _, _)
SortInner(sorted, i, j) ==
  IF j > Len(sorted) THEN sorted
  ELSE IF sorted[i].Timestamp > sorted[j].Timestamp
       THEN SortInner([sorted EXCEPT ![i] = sorted[j], ![j] = sorted[i]], i, j + 1)
       ELSE SortInner(sorted, i, j + 1)

RECURSIVE SortOuter(_, _)
SortOuter(sorted, i) ==
  IF i >= Len(sorted) THEN sorted
  ELSE SortOuter(SortInner(sorted, i, i + 1), i + 1)

\* deduplicateWrites keeping the first write of a run instead of the last
deduplicateKeepFirst(writes, tolerance) ==
  LET sorted == SortOuter(writes, 1)
      keep == {i \in DOMAIN sorted :
                 i = 1 \/ sorted[i].Timestamp - sorted[i - 1].Timestamp > tolerance}
      RECURSIVE Pick(_)
      Pick(i) == IF i > Len(sorted) THEN << >>
                 ELSE IF i \in keep THEN <<sorted[i]>> \o Pick(i + 1) ELSE Pick(i + 1)
  IN Pick(1)

\* deduplicateWrites: sorted by timestamp, a write is dropped when the next
\* one is within the tolerance
deduplicateWrites(writes, tolerance) ==
  LET sorted == SortOuter(writes, 1)
      keep == {i \in DOMAIN sorted :
                 i = Len(sorted) \/ sorted[i + 1].Timestamp - sorted[i].Timestamp > tolerance}
      RECURSIVE Pick(_)
      Pick(i) == IF i > Len(sorted) THEN << >>
                 ELSE IF i \in keep THEN <<sorted[i]>> \o Pick(i + 1) ELSE Pick(i + 1)
  IN Pick(1)

\* INSERT OR REPLACE of the writes, in order, into the table of one file
RECURSIVE InsertOrReplace(_, _)
InsertOrReplace(table, writes) ==
  IF writes = << >> THEN table
  ELSE InsertOrReplace(MapSet(table, writes[1].Timestamp, writes[1].Scalars), Tail(writes))

Table(date) == IF date \in DOMAIN dbRows THEN dbRows[date] ELSE << >>

\* what is left of the groups once one of them has been processed
WithoutGroup(groups, date) == [d \in DOMAIN groups \ {date} |-> groups[d]]

AllWrites(groups) == UNION {Ids(groups[d]) : d \in DOMAIN groups}

FlushDone(f) == IF f.by = "close" THEN "closing" ELSE closePc

\* flushDate commits the transaction of one date group; FlushTicker returns
\* nil after the last group
FlushDateCommit(i, date) ==
  LET f == flushes[i]
      left == WithoutGroup(f.groups, date)
  IN /\ f.pc = "dates"
     /\ date \in DOMAIN f.groups
     /\ dbRows' = MapSet(dbRows, date,
                         InsertOrReplace(Table(date),
                                         deduplicateWrites(f.groups[date], DedupTolerance)))
     /\ settled' = settled \cup Ids(f.groups[date])
     /\ IF DOMAIN left = {}
        THEN /\ flushes' = RemoveAt(flushes, i)
             /\ closePc' = FlushDone(f)
        ELSE /\ flushes' = [flushes EXCEPT ![i] = [f EXCEPT !.groups = left]]
             /\ UNCHANGED closePc
     /\ UNCHANGED <<writerPending, firstPendingTime, lastFlushTime, bgDue, accepted, flushRet>>

\* flushDate fails for one date group: FlushTicker appends that group's writes
\* to the pending writes and returns the error
FlushDateFail(i, date) ==
  LET f == flushes[i]
  IN /\ f.pc = "dates"
     /\ date \in DOMAIN f.groups
     /\ writerPending' = MapSet(writerPending, f.ticker, Pending(f.ticker) \o f.groups[date])
     /\ flushes' = RemoveAt(flushes, i)
     /\ closePc' = FlushDone(f)
     /\ flushRet' = [err |-> TRUE, uncommitted |-> AllWrites(f.groups),
                     requeued |-> Ids(f.groups[date]),
                     failures |-> flushRet.failures + 1]
     /\ UNCHANGED <<firstPendingTime, lastFlushTime, dbRows, bgDue, accepted, settled>>

\* checkAndFlushPending, on a tick of the background flusher: FlushTicker for
\* the ticker whose pending writes are due; the flusher waits for it
BackgroundFlush(ticker) ==
  /\ bgDue
  /\ \A i \in DOMAIN flushes : flushes[i].by # "background"
  /\ bgDue' = FALSE
  /\ flushes' = IF shouldFlush(ticker, FALSE)
                THEN Append(flushes, NewFlush("background", ticker)) ELSE flushes
  /\ UNCHANGED <<writerPending, firstPendingTime, lastFlushTime, dbRows, closePc,
                 accepted, settled, flushRet>>

\* DataWriter.Close, first part: FlushTicker for the ticker if it has pending
\* writes
CloseFlush(ticker) ==
  /\ closePc = "idle"
  /\ IF Len(Pending(ticker)) > 0
     THEN /\ closePc' = "flushing"
          /\ flushes' = Append(flushes, NewFlush("close", ticker))
     ELSE /\ closePc' = "closing"
          /\ UNCHANGED flushes
  /\ UNCHANGED <<writerPending, firstPendingTime, lastFlushTime, dbRows, bgDue,
                 accepted, settled, flushRet>>

\* DataWriter.Close, last part: pool.Close closes every database handle
PoolClose ==
  /\ closePc = "closing"
  /\ closePc' = "closed"
  /\ UNCHANGED <<writerPending, firstPendingTime, lastFlushTime, dbRows, flushes, bgDue,
                 accepted, settled, flushRet>>

(***************************************************************************)
(* PriorityWriteQueue.  A task carries its ticker, its timestamp, its data *)
(* (one number, the scalars of the row) and its priority.                  *)
(***************************************************************************)
\* NewPriorityWriteQueue; the map itself is empty in every initial state
NewPriorityWriteQueue ==
  /\ dispatching = << >>
  /\ handing = {}
  /\ enqueueLog = << >>
  /\ replaced = {}
  /\ handed = {}
  /\ critLog = {}

Dispatching(ticker) == IF ticker \in DOMAIN dispatching THEN dispatching[ticker] ELSE 0

\* delete(pendingWrites, ticker)
MapDelete(m, key) == [k \in DOMAIN m \ {key} |-> m[k]]

\* an Enqueue that keeps the task the ticker already has
EnqueueMapKeepFirst(ticker, task) ==
  IF ticker \in DOMAIN pendingWrites THEN pendingWrites ELSE MapSet(pendingWrites, ticker, task)

\* Enqueue as written: the task takes the ticker's place in the map
EnqueueMap(ticker, task) == MapSet(pendingWrites, ticker, task)

\* Enqueue(ticker, timestamp, data, priority): the latest task of the ticker
\* is stored and a processTask goroutine is started
Enqueue(ticker, timestamp, data, priority) ==
  LET task == [Ticker |-> ticker, Timestamp |-> timestamp, Data |-> data, Priority |-> priority]
  IN /\ pendingWrites' = EnqueueMap(ticker, task)
     /\ dispatching' = MapSet(dispatching, ticker, Dispatching(ticker) + 1)
     /\ enqueueLog' = Append(enqueueLog, [Ticker |-> ticker, Timestamp |-> timestamp, at |-> now])
     /\ replaced' = IF ticker \in DOMAIN pendingWrites
                    THEN replaced \cup {pendingWrites[ticker].Data} ELSE replaced
     /\ UNCHANGED <<handing, handed, critLog>>

\* processTask, first part, under the lock: the goroutine returns when the
\* ticker has no task, else it takes the task out of the map
processTaskTake(ticker) ==
  /\ Dispatching(ticker) > 0
  /\ dispatching' = MapSet(dispatching, ticker, Dispatching(ticker) - 1)
  /\ IF ticker \in DOMAIN pendingWrites
     THEN /\ handing' = handing \cup {[task |-> pendingWrites[ticker], pc |-> "write"]}
          /\ pendingWrites' = MapDelete(pendingWrites, ticker)
     ELSE UNCHANGED <<handing, pendingWrites>>
  /\ UNCHANGED <<enqueueLog, replaced, handed, critLog>>

\* WriteDataEntry returns nil on every path
WriteDataEntryErr == FALSE

\* processTask, the write: WriteDataEntry is called; its error, which would
\* start the retries and end in the CRITICAL log entries, is always nil; for
\* an active ticker a goroutine is started that sleeps and calls FlushTicker
processTaskWrite(h) ==
  LET isActive == h.task.Priority = 0
  IN /\ h \in handing
     /\ h.pc = "write"
     /\ WriteDataEntryEffect(h.task.Ticker, h.task.Timestamp, h.task.Data, isActive)
     /\ handed' = handed \cup {[Data |-> h.task.Data, id |-> accepted + 1]}
     /\ critLog' = IF WriteDataEntryErr THEN critLog \cup {h.task.Data} ELSE critLog
     /\ handing' = IF isActive THEN (handing \ {h}) \cup {[h EXCEPT !.pc = "flush"]}
                   ELSE handing \ {h}
     /\ UNCHANGED <<pendingWrites, dispatching, enqueueLog, replaced>>

\* the goroutine of an active ticker's task: its sleep is over, FlushTicker starts
processTaskFlush(h) ==
  /\ h \in handing
  /\ h.pc = "flush"
  /\ flushes' = Append(flushes, NewFlush("queue", h.task.Ticker))
  /\ handing' = handing \ {h}
  /\ UNCHANGED <<writerPending, firstPendingTime, lastFlushTime, dbRows, closePc, bgDue,
                 accepted, settled, flushRet>>
  /\ UNCHANGED <<pendingWrites, dispatching, enqueueLog, replaced, handed, critLog>>

(***************************************************************************)
(* The states in which no per-ticker goroutine was started and the date    *)
(* rollover monitor has seen no change.                                    *)
(***************************************************************************)
NoReady == [g |-> 0, on |-> "none", open |-> FALSE, dead |-> {}]

NoSchedulerCall == [op |-> "none", list |-> {}]

\* NewPerTickerScheduler: no goroutine, not running
NoLoop ==
  /\ goroutines = << >>
  /\ tickerGoroutines = << >>
  /\ isRunning = FALSE
  /\ lastReady = NoReady
  /\ lastCall = NoSchedulerCall

\* the application runs and StartDateRolloverMonitor was not called
NoShutdown ==
  /\ shutdownPc = "running"
  /\ dateMonitorStopChan = "nil"
  /\ stopChanClosed = FALSE
  /\ monitorLoop = [pc |-> "none", stop |-> "nil"]

\* NewConnectionPool
NewConnectionPool == connections = << >>

\* NewQueryCache
NewQueryCache ==
  /\ cache = << >>
  /\ accessOrder = << >>
  /\ useOrder = << >>

\* no function of package utils was called
NoUtil ==
  /\ arg = << >>
  /\ res = << >>
  /\ NewConnectionPool
  /\ NewQueryCache

NoService ==
  /\ NoShutdown
  /\ NoUtil

\* NewDataCollectionCoordinator: the tracked date is the market date
NoRollover ==
  /\ marketDate = 0
  /\ currentMarketDate = 0
  /\ monitor = [pc |-> "idle", newDate |-> 0]
  /\ rolloverLog = << >>

NoMonitor ==
  /\ NoRollover
  /\ NoService

(***************************************************************************)
(* The polling loop and the coordinator.  The engine runs the tickers of   *)
(* EngineTickers, each enabled for collection with priority medium and no  *)
(* refresh override; a chart window shows ticker 1 and none shows ticker   *)
(* 2; the planner is in chart-only mode on the classic tier, so a plan     *)
(* item carries the two classic chart endpoints.                           *)
(***************************************************************************)
EngineTickers == {1, 2}
MaxWorkers == 96          \* width of the fan-out semaphore of a batch
MaxRetries == 3           \* attempts of FetchEndpoint
AllowAfterHours == FALSE

NoWorker == [pc |-> "none", deadline |-> -1]

\* no polling loop and no batch: the state of the specifications that are
\* about the tracker or the scheduler alone
NoEngine ==
  /\ marketOpen = FALSE
  /\ shuttingDown = FALSE
  /\ workers = << >>
  /\ queries = << >>
  /\ tickersInProgress = {}
  /\ pendingWrites = << >>
  /\ lastReq = << >>
  /\ windowLog = << >>
  /\ NewDataWriter
  /\ NewPriorityWriteQueue
  /\ NoLoop
  /\ NoMonitor

\* retryDelays of FetchEndpoint, milliseconds, by the number of the failed attempt
RetryDelay(attempt) == IF attempt = 1 THEN 100 ELSE IF attempt = 2 THEN 500 ELSE 1000

\* GetChartEndpointsForTiers({"classic"}), no plot hidden
ChartEndpoints == <<"classic_zero", "classic_zero_majors">>

\* BuildOptimizedPlan: the endpoints of each ticker of the batch that is enabled
BuildOptimizedPlan(tickersToFetch) ==
  [t \in {x \in tickersToFetch : InList(enabledTickers, x)} |-> ChartEndpoints]

\* ValidateAndFilterQueries: the plan's endpoints that exist and whose tier is
\* subscribed, as a set of endpoint names per ticker
ValidateAndFilterQueries(plan) ==
  [t \in DOMAIN plan |-> {plan[t][i] : i \in DOMAIN plan[t]} \cap Endpoints]

\* what IsRateLimited() would report at this instant
TrackerReportsLimited == isRateLimited /\ ~RetryElapsed

\* what one GET comes back with: a status code, or no response at all (0)
Responses == {200, 401, 429, 500, 0}

\* what FetchEndpoint returns for it: the data, a RateLimitError, or another
\* error (SubscriptionError, RequestError, the transport error)
Outcome(resp) == IF resp = 200 THEN "ok" ELSE IF resp = 429 THEN "rate_limit" ELSE "error"

\* the Retry-After values (seconds) a 429 carries; 0 is the header absent
RetryAfterValues == {0, 5}

NewQuery == [pc |-> "queued", attempt |-> 0, wake |-> 0, outcome |-> "none", retry |-> 0]

Holding(t) == {e \in DOMAIN queries[t] : queries[t][e].pc = "sleeping"}

(***************************************************************************)
(* runTickerGoroutine.                                                     *)
(***************************************************************************)
\* ProcessTickerBatch up to the fan-out: shutdown check, plan, validation,
\* in-progress marking, one goroutine per validated query
BatchStart(t) ==
  LET plan == BuildOptimizedPlan({t})
      validated == ValidateAndFilterQueries(plan)
  IN IF shuttingDown \/ DOMAIN plan = {}
     THEN /\ workers' = [workers EXCEPT ![t] = [pc |-> "timer", deadline |-> -1]]
          /\ UNCHANGED <<queries, tickersInProgress>>
     ELSE /\ workers' = [workers EXCEPT ![t] = [pc |-> "fetching", deadline |-> -1]]
          /\ queries' = [queries EXCEPT ![t] = [e \in validated[t] |-> NewQuery]]
          /\ tickersInProgress' = tickersInProgress \cup DOMAIN plan

\* the goroutine starts: an immediate TickerReady when the market is open
WorkerStartup(t) ==
  /\ workers[t].pc = "startup"
  /\ IF marketOpen \/ AllowAfterHours
     THEN BatchStart(t)
     ELSE /\ workers' = [workers EXCEPT ![t] = [pc |-> "timer", deadline |-> -1]]
          /\ UNCHANGED <<queries, tickersInProgress>>
  /\ UNCHANGED <<now, trackerVars, storeVars, obsVars, schedVars, marketOpen, shuttingDown,
                 pendingWrites, httpVars>>

\* top of the loop: the interval, RecordFetch, the timer
WorkerArmTimer(t) ==
  /\ workers[t].pc = "timer"
  /\ LET calculated == CalculateInterval(t, displayedTickers)
         interval == IF ~marketOpen /\ ~AllowAfterHours THEN 60000
                     ELSE IF calculated <= 0 THEN 5000 ELSE calculated
     IN workers' = [workers EXCEPT ![t] = [pc |-> "waiting", deadline |-> now + interval]]
  /\ lastFetchTimes' = RecordFetch(t)
  /\ UNCHANGED <<now, trackerVars, storeVars, obsVars, enabledTickers, tickerConfigs, endpointFetchTimes,
                 displayedTickers, intervalRet, marketOpen, shuttingDown, queries,
                 tickersInProgress, pendingWrites, httpVars>>

\* the timer fires: TickerReady when the market is open, else back to the top
WorkerTimerFires(t) ==
  /\ workers[t].pc = "waiting"
  /\ now >= workers[t].deadline
  /\ IF marketOpen \/ AllowAfterHours
     THEN BatchStart(t)
     ELSE /\ workers' = [workers EXCEPT ![t] = [pc |-> "timer", deadline |-> -1]]
          /\ UNCHANGED <<queries, tickersInProgress>>
  /\ UNCHANGED <<now, trackerVars, storeVars, obsVars, schedVars, marketOpen, shuttingDown,
                 pendingWrites, httpVars>>

(***************************************************************************)
(* One GET of FetchEndpoint(e, t), made by the query goroutine of the      *)
(* batch of ticker t: the first one once the goroutine holds the batch's   *)
(* semaphore, a later one after the retry delay.                           *)
(***************************************************************************)
\* the request log keeps the latest max_requests + 1 request times, which is
\* what it takes to see more than max_requests requests inside one window
LogRequest(log, t) ==
  LET all == Append(log, t)
      keep == rateLimitMaxRequests + 1
  IN IF Len(all) > keep THEN SubSeq(all, Len(all) - keep + 1, Len(all)) ELSE all

AfterGet(q, resp, retry) ==
  IF resp = 0 /\ q.attempt + 1 < MaxRetries
  THEN [q EXCEPT !.pc = "sleeping", !.attempt = q.attempt + 1,
                 !.wake = now + RetryDelay(q.attempt + 1)]
  ELSE [pc |-> "done", attempt |-> 0, wake |-> 0, outcome |-> Outcome(resp),
        retry |-> IF resp = 429 THEN retry ELSE 0]

FetchEndpoint(t, e) ==
  /\ workers[t].pc = "fetching"
  /\ e \in DOMAIN queries[t]
  /\ \/ queries[t][e].pc = "queued" /\ Cardinality(Holding(t)) < MaxWorkers
     \/ queries[t][e].pc = "sleeping" /\ now >= queries[t][e].wake
  /\ \E resp \in Responses, retry \in RetryAfterValues :
       /\ resp # 429 => retry = 0
       /\ queries' = [queries EXCEPT ![t][e] = AfterGet(queries[t][e], resp, retry)]
  /\ lastReq' = MapSet(lastReq, e, now)
  /\ windowLog' = IF rateLimitMaxRequests > 0 THEN LogRequest(windowLog, now) ELSE windowLog
  /\ UNCHANGED <<now, trackerVars, storeVars, obsVars, schedVars, marketOpen, shuttingDown, workers,
                 tickersInProgress, pendingWrites>>

(***************************************************************************)
(* ProcessTickerBatch after wg.Wait(): aggregateResults gives every ticker *)
(* of the plan a mapping, ProcessCompletedTickerData is called for it, the *)
(* in-progress marks are cleared.  The responses carry no timestamp field, *)
(* so the row's timestamp is the current time.                             *)
(***************************************************************************)
WritePriority(t) == IF t \in displayedTickers THEN 0 ELSE 1

BatchFinish(t) ==
  /\ workers[t].pc = "fetching"
  /\ \A e \in DOMAIN queries[t] : queries[t][e].pc = "done"
  /\ lastFetchTimes' = RecordFetch(t)
  /\ pendingWrites' = IF shuttingDown THEN pendingWrites
                      ELSE MapSet(pendingWrites, t,
                                  [Timestamp |-> Unix, Priority |-> WritePriority(t)])
  /\ tickersInProgress' = tickersInProgress \ {t}
  /\ queries' = [queries EXCEPT ![t] = << >>]
  /\ workers' = [workers EXCEPT ![t] = [pc |-> "timer", deadline |-> -1]]
  /\ UNCHANGED <<now, trackerVars, storeVars, obsVars, enabledTickers, tickerConfigs, endpointFetchTimes,
                 displayedTickers, intervalRet, marketOpen, shuttingDown, httpVars>>

(***************************************************************************)
(* The environment of the engine: the clock and the market, shutdown, and  *)
(* a client of the tracker reporting a response.                           *)
(***************************************************************************)
EngineTick ==
  /\ Unix + 1 <= MaxEngineSecs
  /\ now' = now + 1000
  /\ marketOpen' \in BOOLEAN
  /\ UNCHANGED <<trackerVars, storeVars, obsVars, schedVars, shuttingDown, workers, queries,
                 tickersInProgress, pendingWrites, httpVars>>

ServiceShutdown ==
  /\ ~shuttingDown
  /\ shuttingDown' = TRUE
  /\ UNCHANGED <<now, trackerVars, storeVars, obsVars, schedVars, marketOpen, workers, queries,
                 tickersInProgress, pendingWrites, httpVars>>

EngineHandle ==
  /\ Len(errLog) < MaxEngineErrs
  /\ HandleRateLimitError(5)

\* the response reported states a limit of one request per window
EngineRecord ==
  /\ Len(requestTimes) < MaxEngineHistory
  /\ RecordRequest(Unix, TRUE, [h \in {"X-RateLimit-Limit"} |-> 1])

Init ==
  /\ now = 0
  /\ NewRateLimitTracker
  /\ InitObs
  /\ NewUnifiedAdaptiveScheduler
  /\ enabledTickers = <<1, 2>>
  /\ tickerConfigs = [t \in EngineTickers |-> [Priority |-> "medium", RefreshRateMs |-> << >>]]
  /\ displayedTickers = {1}
  /\ marketOpen \in BOOLEAN
  /\ shuttingDown = FALSE
  /\ workers = [t \in EngineTickers |-> [pc |-> "startup", deadline |-> -1]]
  /\ queries = [t \in EngineTickers |-> << >>]
  /\ tickersInProgress = {}
  /\ pendingWrites = << >>
  /\ lastReq = << >>
  /\ windowLog = << >>
  /\ NewDataWriter
  /\ NewPriorityWriteQueue
  /\ NoLoop
  /\ NoMonitor

Next ==
  \/ \E t \in EngineTickers : WorkerStartup(t)
  \/ \E t \in EngineTickers : WorkerArmTimer(t)
  \/ \E t \in EngineTickers : WorkerTimerFires(t)
  \/ \E t \in EngineTickers, e \in Endpoints : FetchEndpoint(t, e)
  \/ \E t \in EngineTickers : BatchFinish(t)
  \/ EngineTick
  \/ ServiceShutdown
  \/ EngineHandle
  \/ EngineRecord

Spec == Init /\ [][Next]_vars

\* this step issues a GET for endpoint e on behalf of ticker t
Issued(t, e) ==
  /\ e \in DOMAIN queries[t]
  /\ e \in DOMAIN queries'[t]
  /\ queries'[t][e] # queries[t][e]

\* this step ends the batch of ticker t
Finished(t) == workers[t].pc = "fetching" /\ workers'[t].pc = "timer"

\* C1: no GET is issued at an instant at which the tracker reports the
\* service as rate limited (a 429 was reported and its Retry-After has not
\* elapsed).
NoFetchWhileLimited ==
  [][\A t \in EngineTickers, e \in Endpoints : Issued(t, e) => ~TrackerReportsLimited]_vars

\* C2: while max_requests is known, the GETs of all tickers together never
\* number more than max_requests inside one window of 60 seconds: the
\* request that came max_requests requests before the latest one is at
\* least a window older than it.
WindowBudget ==
  (rateLimitMaxRequests > 0 /\ Len(windowLog) > rateLimitMaxRequests)
    => windowLog[Len(windowLog)] - windowLog[Len(windowLog) - rateLimitMaxRequests]
         >= RateLimitWindow * 1000

\* C5: a batch that ends with a query answered 429 has had that 429 handed
\* to HandleRateLimitError with its Retry-After value.
RateLimitRouted ==
  [][\A t \in EngineTickers :
       (Finished(t) /\ \E e \in DOMAIN queries[t] : queries[t][e].outcome = "rate_limit")
         => /\ lastHandle'.at >= 0
            /\ \E e \in DOMAIN queries[t] :
                 /\ queries[t][e].outcome = "rate_limit"
                 /\ lastHandle'.r = queries[t][e].retry]_vars

\* C6: a GET for an endpoint comes at least one second after the previous
\* GET for that endpoint, at least 200 ms after it while the light throttle
\* is enabled.
EndpointSpacing ==
  [][\A t \in EngineTickers, e \in Endpoints :
       (Issued(t, e) /\ e \in DOMAIN lastReq)
         => now - lastReq[e] >= (IF lightThrottleEnabled THEN LightThrottleIntervalMs
                                 ELSE MinEndpointInterval * 1000)]_vars

\* C11: the last fetch time the scheduler holds for a ticker never decreases,
\* whichever of the ticker's goroutine and ProcessCompletedTickerData records
\* it and in whatever order.
LastFetchMonotonic ==
  [][\A t \in EngineTickers : LastFetch(t)' >= LastFetch(t)]_vars

\* The coordinator recorded ticker 1's fetch at second 0, when it enqueued the
\* row, and a later RecordFetch has moved the time to second 1.
LastFetchAdvanced ==
  /\ 1 \in DOMAIN pendingWrites
  /\ pendingWrites[1].Timestamp = 0
  /\ LastFetch(1) = 1

\* every query of the running batch of ticker t has failed
AllQueriesFailed(t) == \A e \in DOMAIN queries[t] : queries[t][e].outcome # "ok"

\* C18: a batch that ends with an empty aggregated mapping for its ticker
\* (every query failed) enqueues nothing for the ticker and does not record
\* its last fetch time.
EmptyBatchSkipped ==
  [][\A t \in EngineTickers :
       (Finished(t) /\ AllQueriesFailed(t))
         => (pendingWrites' = pendingWrites /\ lastFetchTimes' = lastFetchTimes)]_vars

(***************************************************************************)
(* Specification of the tracker alone: its exported operations called in   *)
(* any order by its clients, while the clock advances.                     *)
(***************************************************************************)
InitTracker ==
  /\ now = 0
  /\ NewRateLimitTracker
  /\ InitObs
  /\ NewUnifiedAdaptiveScheduler
  /\ enabledTickers = << >>
  /\ tickerConfigs = << >>
  /\ displayedTickers = {}
  /\ NoEngine

TrackerTick ==
  /\ Unix + 1 <= MaxTrackerSecs
  /\ Advance(1000)

TrackerHandle ==
  /\ Len(rateLimitErrors) < MaxErrs
  /\ \E r \in RetryAfterValues : HandleRateLimitError(r)

TrackerRecord ==
  /\ Len(requestTimes) < MaxHistory
  /\ \E success \in BOOLEAN, headers \in HeaderSet : RecordRequest(Unix, success, headers)

TrackerEndpointCall == \E e \in Endpoints : RecordEndpointCall(e)

NextTracker ==
  \/ TrackerTick
  \/ TrackerHandle
  \/ TrackerRecord
  \/ TrackerEndpointCall
  \/ IsRateLimited
  \/ CanMakeRequest

SpecTracker == InitTracker /\ [][NextTracker]_vars

HistoryBelowLimit ==
  rateLimitMaxRequests <= 0 \/ Len(requestTimes) < rateLimitMaxRequests

\* C3: after HandleRateLimitError(5) at time T, CanMakeRequest returns false at
\* every time in [T, T+5), whatever tracker operations are interleaved.
RetryWindowBlocks ==
  (/\ ret.op = "CanMakeRequest"
   /\ lastHandle.at >= 0
   /\ lastHandle.r = 5
   /\ ret.at >= lastHandle.at
   /\ ret.at < lastHandle.at + 5000)
  => ret.val = FALSE

\* C4: after HandleRateLimitError(r), r > 0, at time T, with no further 429 and
\* a request history below max_requests, every CanMakeRequest call made after
\* T + r returns true.
RetryElapsedAllows ==
  (/\ ret.op = "CanMakeRequest"
   /\ lastHandle.at >= 0
   /\ lastHandle.r > 0
   /\ ret.at > lastHandle.at + lastHandle.r * 1000
   /\ ~failSince
   /\ HistoryBelowLimit)
  => ret.val = TRUE

(***************************************************************************)
(* Specification of the 429 ring: HandleRateLimitError called in bursts    *)
(* while the clock advances in steps of half a window.                     *)
(***************************************************************************)
RingTick ==
  /\ Unix + RingStepSecs <= MaxRingSteps * RingStepSecs
  /\ Advance(RingStepSecs * 1000)

RingHandle ==
  /\ Len(errLog) < MaxRingErrs
  /\ \E r \in RetryAfterValues : HandleRateLimitError(r)

NextRing ==
  \/ RingTick
  \/ RingHandle

SpecRing == InitTracker /\ [][NextRing]_vars

\* C7: after every HandleRateLimitError, with c the number of 429 timestamps of
\* the last 60 s: the light throttle is on if c >= 5, it goes from on to off
\* only if c < 2, it keeps its value for 2 <= c <= 4, and the 429 ring never
\* holds more than 100 entries.
ThrottleHysteresis ==
  /\ Len(rateLimitErrors) <= 100
  /\ ret.op = "HandleRateLimitError" =>
       LET c == Len(errLog)
       IN /\ (c >= 5 => lightThrottleEnabled)
          /\ (prevThrottle /\ ~lightThrottleEnabled => c < 2)
          /\ (c >= 2 /\ c <= 4 => lightThrottleEnabled = prevThrottle)

\* The throttle is on, a 429 arrives with three 429s left in the window, and
\* the throttle stays on.
ThrottleHeld ==
  /\ ret.op = "HandleRateLimitError"
  /\ prevThrottle
  /\ lightThrottleEnabled
  /\ Len(errLog) = 3

(***************************************************************************)
(* Specification of the light throttle: 429s, endpoint calls and throttle  *)
(* queries while the clock advances.                                       *)
(***************************************************************************)
ThrottleTick ==
  /\ Unix + RingStepSecs <= MaxThrottleSteps * RingStepSecs
  /\ Advance(RingStepSecs * 1000)

ThrottleHandle ==
  /\ Len(errLog) < MaxThrottleErrs
  /\ \E r \in RetryAfterValues : HandleRateLimitError(r)

ThrottleQuery == \E e \in Endpoints : CanMakeRequestWithLightThrottle(e)

NextThrottle ==
  \/ ThrottleTick
  \/ ThrottleHandle
  \/ ThrottleQuery
  \/ TrackerEndpointCall

SpecThrottle == InitTracker /\ [][NextThrottle]_vars

\* C8: if the light throttle is on and no 429 is reported for 60 s, the flag
\* becomes false and CanMakeRequestWithLightThrottle stops blocking, with no
\* further 429 needed.
ThrottleDecays ==
  (/\ ret.op = "CanMakeRequestWithLightThrottle"
   /\ lastHandle.at >= 0
   /\ ret.at >= lastHandle.at + 60000)
  => (~lightThrottleEnabled /\ ret.val)

(***************************************************************************)
(* Specification of the interval computation: a scheduler with any list of *)
(* enabled tickers, any settings for ticker 1 and any displayed set, whose *)
(* tracker learns the limit from a response header, and on which           *)
(* CalculateInterval is called.                                            *)
(***************************************************************************)
QueryTickers == {1, 2}
Priorities == {"high", "medium", "low", ""}
RefreshRates == {<< >>, <<0>>, <<500>>, <<1500>>, <<20000>>}
TickerConfigSet == [Priority : Priorities, RefreshRateMs : RefreshRates]
Prefix(n) == [i \in 1..n |-> i]
Shifted(n) == [i \in 1..n |-> i + 1]

InitInterval ==
  /\ now = 0
  /\ NewRateLimitTracker
  /\ InitObs
  /\ NewUnifiedAdaptiveScheduler
  /\ enabledTickers \in {Prefix(n) : n \in 0..MaxEnabled} \cup {Shifted(n) : n \in 0..MaxEnabled}
  /\ \E dom \in SUBSET {1} : tickerConfigs \in [dom -> TickerConfigSet]
  /\ displayedTickers \in SUBSET {1}
  /\ NoEngine

IntervalRecord ==
  /\ Len(requestTimes) < 1
  /\ \E headers \in HeaderSet : RecordRequest(Unix, TRUE, headers)

IntervalCalc ==
  /\ \E ticker \in QueryTickers :
       intervalRet' = [ticker |-> ticker,
                       priority |-> getTickerPriority(ticker, displayedTickers),
                       interval |-> CalculateInterval(ticker, displayedTickers),
                       limit |-> rateLimitMaxRequests]
  /\ UNCHANGED <<now, trackerVars, storeVars, obsVars, lastFetchTimes, enabledTickers, tickerConfigs,
                 endpointFetchTimes, displayedTickers, engineVars, httpVars>>

NextInterval ==
  \/ IntervalRecord
  \/ IntervalCalc

SpecInterval == InitInterval /\ [][NextInterval]_vars

Called == intervalRet.priority >= 0
HasConfig(ticker) == ticker \in DOMAIN tickerConfigs
ConfigPriority(ticker) == IF HasConfig(ticker) THEN tickerConfigs[ticker].Priority ELSE "none"
IsEnabled(ticker) == \E i \in DOMAIN enabledTickers : enabledTickers[i] = ticker

Max(a, b) == IF a >= b THEN a ELSE b
Override(ticker) ==
  IF HasConfig(ticker) /\ tickerConfigs[ticker].RefreshRateMs # << >>
  THEN tickerConfigs[ticker].RefreshRateMs[1] ELSE 0
TableValue(priority, n) ==
  IF priority = 0 THEN 1000
  ELSE IF priority = 1 THEN (IF n <= 5 THEN 6000 ELSE IF n <= 20 THEN 10000 ELSE 15000)
  ELSE (IF n <= 5 THEN 16000 ELSE IF n <= 20 THEN 22000 ELSE 30000)
Base(ticker, priority, n) ==
  IF Override(ticker) # 0 THEN Max(Override(ticker), 1000) ELSE TableValue(priority, n)

\* C10 as stated: CalculateInterval is max(base, floor) with floor
\* (window / max_requests) * N when max_requests is known and 0 otherwise.
IntervalAsStated ==
  Called =>
    LET n == Len(enabledTickers)
        floor == IF intervalRet.limit > 0
                 THEN ((RateLimitWindow * 1000) \div intervalRet.limit) * n ELSE 0
    IN intervalRet.interval = Max(Base(intervalRet.ticker, intervalRet.priority, n), floor)

\* C10 amended: the floor is (window / max_requests) * N when max_requests is
\* known and N >= 1, window / max_requests when it is known and N = 0, and 0
\* otherwise.
IntervalIsFlooredBase ==
  Called =>
    LET n == Len(enabledTickers)
        floor == IF intervalRet.limit > 0
                 THEN ((RateLimitWindow * 1000) \div intervalRet.limit) * Max(n, 1) ELSE 0
    IN intervalRet.interval = Max(Base(intervalRet.ticker, intervalRet.priority, n), floor)

\* The interval of a ticker was computed with a known limit while no ticker
\* was enabled, and the floor decided it.
IntervalWithNoTickers ==
  /\ Called
  /\ intervalRet.limit > 0
  /\ Len(enabledTickers) = 0
  /\ intervalRet.interval = (RateLimitWindow * 1000) \div intervalRet.limit


(***************************************************************************)
(* Specification of the writer: WriteDataEntry calls for one ticker, the   *)
(* flushes they start, the background flusher and Close, while the clock   *)
(* advances; a transaction may fail.                                       *)
(***************************************************************************)
WriterTicker == CHOOSE t \in EngineTickers : \A u \in EngineTickers : t <= u
WriteTimestamps == {0, 2, MarketDay}

WriterWrite ==
  /\ accepted < MaxWrites
  /\ \E timestamp \in WriteTimestamps, isActive \in BOOLEAN :
       WriteDataEntryEffect(WriterTicker, timestamp, accepted + 1, isActive)
  /\ UNCHANGED <<now, trackerVars, obsVars, schedVars, engineVars, httpVars, queueVars, loopVars, rolloverVars, serviceVars>>

WriterFlushTake ==
  /\ \E i \in DOMAIN flushes : FlushTake(i)
  /\ UNCHANGED <<now, trackerVars, obsVars, schedVars, engineVars, httpVars, queueVars, loopVars, rolloverVars, serviceVars>>

WriterFlushCommit ==
  /\ \E i \in DOMAIN flushes : \E date \in DOMAIN flushes[i].groups : FlushDateCommit(i, date)
  /\ UNCHANGED <<now, trackerVars, obsVars, schedVars, engineVars, httpVars, queueVars, loopVars, rolloverVars, serviceVars>>

WriterFlushFail ==
  /\ flushRet.failures < MaxFlushFailures
  /\ \E i \in DOMAIN flushes : \E date \in DOMAIN flushes[i].groups : FlushDateFail(i, date)
  /\ UNCHANGED <<now, trackerVars, obsVars, schedVars, engineVars, httpVars, queueVars, loopVars, rolloverVars, serviceVars>>

WriterBackground ==
  /\ BackgroundFlush(WriterTicker)
  /\ UNCHANGED <<now, trackerVars, obsVars, schedVars, engineVars, httpVars, queueVars, loopVars, rolloverVars, serviceVars>>

WriterClose ==
  /\ CloseFlush(WriterTicker)
  /\ UNCHANGED <<now, trackerVars, obsVars, schedVars, engineVars, httpVars, queueVars, loopVars, rolloverVars, serviceVars>>

WriterPoolClose ==
  /\ PoolClose
  /\ UNCHANGED <<now, trackerVars, obsVars, schedVars, engineVars, httpVars, queueVars, loopVars, rolloverVars, serviceVars>>

WriterTick ==
  /\ Unix + 1 <= MaxWriterSecs
  /\ now' = now + 1000
  /\ bgDue' = TRUE
  /\ UNCHANGED <<writerPending, firstPendingTime, lastFlushTime, dbRows, flushes, closePc,
                 accepted, settled, flushRet>>
  /\ UNCHANGED <<trackerVars, obsVars, schedVars, engineVars, httpVars, queueVars, loopVars, rolloverVars, serviceVars>>

NextWriter ==
  \/ WriterWrite
  \/ WriterFlushTake
  \/ WriterFlushCommit
  \/ WriterFlushFail
  \/ WriterBackground
  \/ WriterClose
  \/ WriterPoolClose
  \/ WriterTick

InitWriter ==
  /\ now = 0
  /\ NewRateLimitTracker
  /\ InitObs
  /\ NewUnifiedAdaptiveScheduler
  /\ enabledTickers = << >>
  /\ tickerConfigs = << >>
  /\ displayedTickers = {}
  /\ NoEngine

SpecWriter == InitWriter /\ [][NextWriter]_vars

PersistedTimestamps == UNION {DOMAIN dbRows[d] : d \in DOMAIN dbRows}

\* C12: no two persisted rows of the ticker have timestamps at most 0.1 s
\* apart, whatever WriteDataEntry calls and flushes produced them.
NoNearDuplicates ==
  \A t1 \in PersistedTimestamps, t2 \in PersistedTimestamps :
    t1 < t2 => t2 - t1 > DedupTolerance

\* C13: at the step at which Close closes the database handles, every
\* accepted write has been committed or is among the pending writes.
CloseLeavesNothingInFlight ==
  [][(closePc = "closing" /\ closePc' = "closed")
       => \A id \in 1..accepted : id \in settled \/ id \in Ids(Pending(WriterTicker))]_vars

\* C14: when FlushTicker returns an error, every write it had taken and not
\* committed has been appended to the pending writes again.
FlushFailureRequeues ==
  flushRet.err => flushRet.uncommitted \subseteq flushRet.requeued


(***************************************************************************)
(* Specification of the write queue in front of the writer: Enqueue calls  *)
(* for one ticker, their processTask goroutines, the flushes of the writer *)
(* and its background flusher; a transaction may fail.                     *)
(***************************************************************************)
batchVars == <<marketOpen, shuttingDown, workers, queries, tickersInProgress>>
TaskPriorities == {0, 1}

QueueEnqueue ==
  /\ Len(enqueueLog) < MaxEnqueues
  /\ \E timestamp \in WriteTimestamps, priority \in TaskPriorities :
       Enqueue(WriterTicker, timestamp, Len(enqueueLog) + 1, priority)
  /\ UNCHANGED <<now, trackerVars, obsVars, schedVars, batchVars, httpVars, writerVars, loopVars, rolloverVars, serviceVars>>

QueueTake ==
  /\ processTaskTake(WriterTicker)
  /\ UNCHANGED <<now, trackerVars, obsVars, schedVars, batchVars, httpVars, writerVars, loopVars, rolloverVars, serviceVars>>

QueueWrite ==
  /\ \E h \in handing : processTaskWrite(h)
  /\ UNCHANGED <<now, trackerVars, obsVars, schedVars, batchVars, httpVars, loopVars, rolloverVars, serviceVars>>

QueueFlush ==
  /\ \E h \in handing : processTaskFlush(h)
  /\ UNCHANGED <<now, trackerVars, obsVars, schedVars, batchVars, httpVars, loopVars, rolloverVars, serviceVars>>

NextQueue ==
  \/ QueueEnqueue
  \/ QueueTake
  \/ QueueWrite
  \/ QueueFlush
  \/ WriterFlushTake
  \/ WriterFlushCommit
  \/ WriterFlushFail
  \/ WriterBackground
  \/ WriterTick

SpecQueue == InitWriter /\ [][NextQueue]_vars

QueuedData == {pendingWrites[t].Data : t \in DOMAIN pendingWrites}
TakenData == {x.Data : x \in handed} \cup {h.task.Data : h \in {g \in handing : g.pc = "write"}}
EnqueuedData == 1..Len(enqueueLog)

\* C15: the queue holds at most one pending task of the ticker, namely the
\* latest enqueued one if it was not taken yet, and a task that an Enqueue
\* replaced is never handed to the writer.
LatestWins ==
  /\ Cardinality(EnqueuedData \ (replaced \cup TakenData)) <= 1
  /\ QueuedData = EnqueuedData \ (replaced \cup TakenData)
  /\ replaced \cap TakenData = {}

ReplacedWhilePending == replaced # {} /\ handed # {} /\ pendingWrites = << >>


TwoCloseEnqueues ==
  /\ Len(enqueueLog) = 2
  /\ enqueueLog[1].Timestamp = 0
  /\ enqueueLog[2].Timestamp = 2
  /\ enqueueLog[2].at - enqueueLog[1].at < 5

\* nothing is on its way to the database any more
QueueDrained ==
  /\ pendingWrites = << >>
  /\ Dispatching(WriterTicker) = 0
  /\ handing = {}
  /\ Pending(WriterTicker) = << >>
  /\ flushes = << >>

PersistedRows ==
  UNION {{[Timestamp |-> t, Scalars |-> dbRows[d][t]] : t \in DOMAIN dbRows[d]} : d \in DOMAIN dbRows}

\* C16: after two Enqueue calls for the ticker less than 5 ms apart, with
\* timestamps t and t + 0.002, once the queue and the writer have nothing
\* left to do exactly one row is persisted: timestamp t + 0.002 with the
\* scalars of the second call.
OneRowOfTwo ==
  (TwoCloseEnqueues /\ QueueDrained) => PersistedRows = {[Timestamp |-> 2, Scalars |-> 2]}


\* ids of the writes FlushTicker calls hold between taking and committing them
InFlight == UNION {AllWrites(flushes[i].groups) : i \in DOMAIN flushes}

\* C17: no write accepted by Enqueue (and not replaced by a later one)
\* disappears: at every moment it is still on its way to the database, or
\* persisted, or named in a critical log entry.
NoSilentLoss ==
  /\ \A d \in EnqueuedData \ replaced :
       d \in QueuedData \cup TakenData
  /\ \A x \in handed :
       \/ x.id \in settled
       \/ x.id \in Ids(Pending(WriterTicker))
       \/ x.id \in InFlight
       \/ x.Data \in critLog


(***************************************************************************)
(* PerTickerScheduler with its goroutines told apart from their tickers:   *)
(* UpdateTickers stops the goroutine of a ticker that is no longer enabled *)
(* without waiting for it, and starts a new one when the ticker is enabled *)
(* again.  Each goroutine calls ProcessTickerBatch through onTickerReady.  *)
(***************************************************************************)
NewGoroutine(ticker) ==
  [ticker |-> ticker, pc |-> "startup", stopped |-> FALSE, deadline |-> -1, left |-> {}]

\* the tickers of a set as a list
RECURSIVE Ascending(_)
Ascending(S) ==
  IF S = {} THEN << >>
  ELSE LET least == CHOOSE x \in S : \A y \in S : x <= y
       IN <<least>> \o Ascending(S \ {least})

\* UpdateTickers without the test of pts.isRunning
UpdateTickersAlwaysSpawns(tickers) ==
  LET gone == {tickerGoroutines[t] : t \in DOMAIN tickerGoroutines \ tickers}
      kept == DOMAIN tickerGoroutines \cap tickers
      fresh == Ascending(tickers \ DOMAIN tickerGoroutines)
      IndexOf(t) == CHOOSE k \in DOMAIN fresh : fresh[k] = t
  IN /\ goroutines' = [g \in DOMAIN goroutines |->
                         IF g \in gone THEN [goroutines[g] EXCEPT !.stopped = TRUE]
                         ELSE goroutines[g]]
                      \o [k \in DOMAIN fresh |-> NewGoroutine(fresh[k])]
     /\ tickerGoroutines' = [t \in tickers |->
                               IF t \in kept THEN tickerGoroutines[t]
                               ELSE Len(goroutines) + IndexOf(t)]

\* UpdateTickers(tickers): stopTickerGoroutine closes the stop channel of the
\* goroutines of the tickers that left the list and their entries are
\* deleted; when the scheduler is running, spawnTickerGoroutine starts a
\* goroutine for each ticker of the list that has none
UpdateTickers(tickers) ==
  LET gone == {tickerGoroutines[t] : t \in DOMAIN tickerGoroutines \ tickers}
      kept == DOMAIN tickerGoroutines \cap tickers
      fresh == IF isRunning THEN Ascending(tickers \ DOMAIN tickerGoroutines) ELSE << >>
      IndexOf(t) == CHOOSE k \in DOMAIN fresh : fresh[k] = t
  IN /\ goroutines' = [g \in DOMAIN goroutines |->
                         IF g \in gone THEN [goroutines[g] EXCEPT !.stopped = TRUE]
                         ELSE goroutines[g]]
                      \o [k \in DOMAIN fresh |-> NewGoroutine(fresh[k])]
     /\ tickerGoroutines' = [t \in kept \cup {fresh[k] : k \in DOMAIN fresh} |->
                               IF t \in kept THEN tickerGoroutines[t]
                               ELSE Len(goroutines) + IndexOf(t)]

\* Start: returns when running; else spawnTickerGoroutine for each ticker of
\* pts.enabledTickers, which replaces the entry the ticker had
Start ==
  IF isRunning
  THEN UNCHANGED <<isRunning, goroutines, tickerGoroutines>>
  ELSE /\ isRunning' = TRUE
       /\ goroutines' = goroutines \o [k \in DOMAIN enabledTickers |-> NewGoroutine(enabledTickers[k])]
       /\ tickerGoroutines' =
            [t \in DOMAIN tickerGoroutines \cup {enabledTickers[k] : k \in DOMAIN enabledTickers} |->
               IF \E k \in DOMAIN enabledTickers : enabledTickers[k] = t
               THEN Len(goroutines) + (CHOOSE k \in DOMAIN enabledTickers :
                                         /\ enabledTickers[k] = t
                                         /\ \A j \in DOMAIN enabledTickers :
                                              enabledTickers[j] = t => j <= k)
               ELSE tickerGoroutines[t]]

\* Stop: returns when not running; else stopTickerGoroutine for every entry
\* of the map, close(pts.stopChan); the entries stay
Stop ==
  IF ~isRunning
  THEN UNCHANGED <<isRunning, goroutines, tickerGoroutines>>
  ELSE /\ isRunning' = FALSE
       /\ goroutines' = [g \in DOMAIN goroutines |-> [goroutines[g] EXCEPT !.stopped = TRUE]]
       /\ UNCHANGED tickerGoroutines

\* SaveSettings when the enabled tickers changed: SetEnabledTickers, UpdateTickers
SaveSettings(tickers) ==
  /\ tickers # {enabledTickers[k] : k \in DOMAIN enabledTickers}
  /\ enabledTickers' = Ascending(tickers)
  /\ UpdateTickers(tickers)

\* ProcessTickerBatch([ticker]) called by goroutine g, up to the fan-out
LoopBatchStart(g) ==
  LET t == goroutines[g].ticker
      plan == BuildOptimizedPlan({t})
      validated == ValidateAndFilterQueries(plan)
  IN IF shuttingDown \/ DOMAIN plan = {}
     THEN /\ goroutines' = [goroutines EXCEPT ![g].pc = "timer"]
          /\ UNCHANGED tickersInProgress
     ELSE /\ goroutines' = [goroutines EXCEPT ![g].pc = "fetching", ![g].left = validated[t]]
          /\ tickersInProgress' = tickersInProgress \cup DOMAIN plan

\* a gate that is open whatever the market hours
shouldFetchAlways == TRUE

\* shouldFetchOnStartup, shouldFetch: marketIsOpen || pts.allowAfterHours
shouldFetch == marketOpen \/ AllowAfterHours

\* a panic that nothing recovers ends every goroutine of the process
PanicUnrecovered(g) == [h \in DOMAIN goroutines |-> [goroutines[h] EXCEPT !.pc = "panicked"]]

\* the deferred function of runTickerGoroutine recovers the panic of
\* goroutine g and the goroutine returns
PanicRecovered(g) == [goroutines EXCEPT ![g].pc = "panicked"]

\* the goroutines whose deferred recover has caught a panic
Panicked == {g \in DOMAIN goroutines : goroutines[g].pc = "panicked"}

\* pts.onTickerReady(ticker) called by goroutine g
onTickerReady(g, on) ==
  /\ lastReady' = [g |-> g, on |-> on, open |-> marketOpen, dead |-> Panicked]
  /\ LoopBatchStart(g)

\* the goroutine starts: an immediate TickerReady when the market is open
LoopStartup(g) ==
  /\ goroutines[g].pc = "startup"
  /\ IF shouldFetch
     THEN onTickerReady(g, "startup")
     ELSE /\ goroutines' = [goroutines EXCEPT ![g].pc = "timer"]
          /\ UNCHANGED <<tickersInProgress, lastReady>>
  /\ UNCHANGED <<lastFetchTimes, enabledTickers, pendingWrites, tickerGoroutines>>

\* top of the loop: the interval, RecordFetch, the timer; a goroutine that
\* sees goroutine.isRunning false returns, before RecordFetch or after it
LoopArmTimer(g) ==
  /\ goroutines[g].pc = "timer"
  /\ IF goroutines[g].stopped
     THEN /\ goroutines' = [goroutines EXCEPT ![g].pc = "exited"]
          /\ lastFetchTimes' \in {lastFetchTimes, RecordFetch(goroutines[g].ticker)}
     ELSE /\ LET calculated == CalculateInterval(goroutines[g].ticker, displayedTickers)
                 interval == IF ~marketOpen /\ ~AllowAfterHours THEN 60000
                             ELSE IF calculated <= 0 THEN 5000 ELSE calculated
             IN goroutines' = [goroutines EXCEPT ![g].pc = "waiting",
                                                 ![g].deadline = now + interval]
          /\ lastFetchTimes' = RecordFetch(goroutines[g].ticker)
  /\ UNCHANGED <<enabledTickers, tickersInProgress, pendingWrites, tickerGoroutines, lastReady>>

\* the select of the loop takes the timer: TickerReady when the market is open
LoopTimerFires(g) ==
  /\ goroutines[g].pc = "waiting"
  /\ now >= goroutines[g].deadline
  /\ IF shouldFetch
     THEN onTickerReady(g, "timer")
     ELSE /\ goroutines' = [goroutines EXCEPT ![g].pc = "timer"]
          /\ UNCHANGED <<tickersInProgress, lastReady>>
  /\ UNCHANGED <<lastFetchTimes, enabledTickers, pendingWrites, tickerGoroutines>>

\* the select of the loop takes the closed stop channel: the goroutine returns
LoopStopped(g) ==
  /\ goroutines[g].pc = "waiting"
  /\ goroutines[g].stopped
  /\ goroutines' = [goroutines EXCEPT ![g].pc = "exited"]
  /\ UNCHANGED <<lastFetchTimes, enabledTickers, tickersInProgress, pendingWrites,
                 tickerGoroutines, lastReady>>

\* a query goroutine of the batch of g returns from FetchEndpoint
LoopFetch(g, e) ==
  /\ goroutines[g].pc = "fetching"
  /\ e \in goroutines[g].left
  /\ goroutines' = [goroutines EXCEPT ![g].left = @ \ {e}]
  /\ UNCHANGED <<lastFetchTimes, enabledTickers, tickersInProgress, pendingWrites,
                 tickerGoroutines, lastReady>>

\* ProcessTickerBatch after the fan-out: ProcessCompletedTickerData, then the
\* ticker is deleted from tickersInProgress
LoopBatchFinish(g) ==
  LET t == goroutines[g].ticker
  IN /\ goroutines[g].pc = "fetching"
     /\ goroutines[g].left = {}
     /\ lastFetchTimes' = RecordFetch(t)
     /\ pendingWrites' = IF shuttingDown THEN pendingWrites
                         ELSE MapSet(pendingWrites, t,
                                     [Timestamp |-> Unix, Priority |-> WritePriority(t)])
     /\ tickersInProgress' = tickersInProgress \ {t}
     /\ goroutines' = [goroutines EXCEPT ![g].pc = "timer"]
     /\ UNCHANGED <<enabledTickers, tickerGoroutines, lastReady>>

(***************************************************************************)
(* Specification of the polling loop of one ticker whose collection is     *)
(* switched off and on again in the settings while its batches run.        *)
(***************************************************************************)
LoopTickers == {WriterTicker}
loopFrame == <<trackerVars, obsVars, tickerConfigs, endpointFetchTimes, displayedTickers,
               intervalRet, marketOpen, shuttingDown, workers, queries, httpVars,
               writerVars, queueVars, rolloverVars, shutdownVars, isRunning, lastCall,
               utilVars>>

LoopSaveSettings ==
  /\ \E tickers \in SUBSET LoopTickers :
       /\ Len(goroutines) + Cardinality(tickers \ DOMAIN tickerGoroutines) <= MaxGoroutines
       /\ SaveSettings(tickers)
  /\ UNCHANGED <<now, lastFetchTimes, tickersInProgress, pendingWrites, lastReady, loopFrame>>

LoopTick ==
  /\ Unix + 1 <= MaxLoopSecs
  /\ now' = now + 1000
  /\ UNCHANGED <<lastFetchTimes, enabledTickers, tickersInProgress, pendingWrites, loopVars,
                 lastReady, loopFrame>>

NextLoop ==
  \/ LoopSaveSettings
  \/ \E g \in DOMAIN goroutines : LoopStartup(g) /\ UNCHANGED <<now, loopFrame>>
  \/ \E g \in DOMAIN goroutines : LoopArmTimer(g) /\ UNCHANGED <<now, loopFrame>>
  \/ \E g \in DOMAIN goroutines : LoopTimerFires(g) /\ UNCHANGED <<now, loopFrame>>
  \/ \E g \in DOMAIN goroutines : LoopStopped(g) /\ UNCHANGED <<now, loopFrame>>
  \/ \E g \in DOMAIN goroutines, e \in Endpoints : LoopFetch(g, e) /\ UNCHANGED <<now, loopFrame>>
  \/ \E g \in DOMAIN goroutines : LoopBatchFinish(g) /\ UNCHANGED <<now, loopFrame>>
  \/ LoopTick

\* the application started: the ticker is enabled and displayed, the market
\* is open, the scheduler has started the ticker's goroutine
InitLoop ==
  /\ now = 0
  /\ NewRateLimitTracker
  /\ InitObs
  /\ NewUnifiedAdaptiveScheduler
  /\ enabledTickers = Ascending(LoopTickers)
  /\ tickerConfigs = [t \in LoopTickers |-> [Priority |-> "medium", RefreshRateMs |-> << >>]]
  /\ displayedTickers = LoopTickers
  /\ marketOpen = TRUE
  /\ shuttingDown = FALSE
  /\ workers = << >>
  /\ queries = << >>
  /\ tickersInProgress = {}
  /\ pendingWrites = << >>
  /\ lastReq = << >>
  /\ windowLog = << >>
  /\ NewDataWriter
  /\ NewPriorityWriteQueue
  /\ goroutines = [k \in DOMAIN Ascending(LoopTickers) |-> NewGoroutine(Ascending(LoopTickers)[k])]
  /\ tickerGoroutines = [t \in LoopTickers |-> CHOOSE k \in DOMAIN goroutines : goroutines[k].ticker = t]
  /\ isRunning = TRUE
  /\ lastReady = NoReady
  /\ lastCall = NoSchedulerCall
  /\ NoMonitor

SpecLoop == InitLoop /\ [][NextLoop]_vars

\* the goroutines that are inside ProcessTickerBatch for ticker t, between
\* marking the ticker and deleting the mark
Batching(t) == {g \in DOMAIN goroutines : goroutines[g].ticker = t /\ goroutines[g].pc = "fetching"}

\* IsTickerInProgress(ticker)
IsTickerInProgress(t) == t \in tickersInProgress

\* C19: while one ProcessTickerBatch invocation has a ticker marked in
\* progress no other invocation fetches for that ticker, and
\* IsTickerInProgress stays true until the last batch holding the ticker
\* has finished.
InProgressExcludes ==
  \A t \in LoopTickers :
    /\ Cardinality(Batching(t)) <= 1
    /\ Batching(t) # {} => IsTickerInProgress(t)


(***************************************************************************)
(* The date rollover monitor: one goroutine that calls checkDateRollover   *)
(* on every tick of its 30 s ticker.  SetPerTickerScheduler was called     *)
(* before the monitor started, so perTickerScheduler is not nil.           *)
(***************************************************************************)
MonitorPeriod == 30000     \* the monitor's ticker, milliseconds

Event(what, date) == [what |-> what, date |-> date]

\* a tracked date that is left as it was
TrackedDateStale(newDate) == currentMarketDate

\* dcc.currentMarketDate = newDate
TrackedDate(newDate) == newDate

\* FlushAllTickers: FlushTicker for every ticker that has an entry in the
\* writer's pending map, one after the other
FlushAllTickersStart ==
  IF DOMAIN writerPending = {} THEN flushes
  ELSE Append(flushes, NewFlush("rollover", CHOOSE t \in DOMAIN writerPending : TRUE))

FlushAllTickersRunning == \E k \in DOMAIN flushes : flushes[k].by = "rollover"

\* a tick of the monitor: checkDateRollover up to the end of its call of
\* FlushAllTickers' first FlushTicker; nothing happens when the date part of
\* GetMarketDate() is the tracked one
checkDateRollover ==
  /\ monitor.pc = "idle"
  /\ now' = now + MonitorPeriod
  /\ LET oldDate == currentMarketDate
         newDate == marketDate
     IN IF oldDate # newDate
        THEN /\ currentMarketDate' = TrackedDate(newDate)
             /\ flushes' = FlushAllTickersStart
             /\ monitor' = [pc |-> "flushing", newDate |-> newDate]
             /\ rolloverLog' = rolloverLog \o <<Event("date", newDate), Event("flush", newDate)>>
        ELSE UNCHANGED <<currentMarketDate, flushes, monitor, rolloverLog>>
  /\ UNCHANGED <<marketDate, writerPending, firstPendingTime, lastFlushTime, dbRows, closePc,
                 bgDue, accepted, settled, flushRet>>

\* checkDateRollover once FlushAllTickers has returned, with or without an
\* error: TriggerImmediatePolling
checkDateRolloverPolling ==
  /\ monitor.pc = "flushing"
  /\ ~FlushAllTickersRunning
  /\ rolloverLog' = Append(rolloverLog, Event("poll", monitor.newDate))
  /\ monitor' = [monitor EXCEPT !.pc = "idle"]
  /\ UNCHANGED <<now, marketDate, currentMarketDate, writerVars>>

(***************************************************************************)
(* Specification of the monitor: the market date changes (once a day, so   *)
(* never twice between two ticks of the monitor), writes arrive at the     *)
(* writer and are flushed, a transaction may fail.                         *)
(***************************************************************************)
rolloverFrame == <<trackerVars, obsVars, schedVars, engineVars, httpVars, queueVars, loopVars,
                   serviceVars>>

RolloverDateChanges ==
  /\ marketDate < MaxDates
  /\ marketDate = currentMarketDate
  /\ marketDate' = marketDate + 1
  /\ UNCHANGED <<now, currentMarketDate, monitor, rolloverLog, writerVars, rolloverFrame>>

RolloverTick ==
  /\ now < MaxMonitorTicks * MonitorPeriod
  /\ checkDateRollover
  /\ UNCHANGED rolloverFrame

RolloverPolling ==
  /\ checkDateRolloverPolling
  /\ UNCHANGED rolloverFrame

RolloverWrite ==
  /\ accepted < MaxRolloverWrites
  /\ \E timestamp \in WriteTimestamps, isActive \in BOOLEAN :
       WriteDataEntryEffect(WriterTicker, timestamp, accepted + 1, isActive)
  /\ UNCHANGED <<now, rolloverVars, rolloverFrame>>

NextRollover ==
  \/ RolloverDateChanges
  \/ RolloverTick
  \/ RolloverPolling
  \/ RolloverWrite
  \/ WriterFlushTake
  \/ WriterFlushCommit
  \/ WriterFlushFail

SpecRollover == InitWriter /\ [][NextRollover]_vars

\* what the monitor does for the date changes up to date d, in order
RECURSIVE Handling(_)
Handling(d) ==
  IF d = 0 THEN << >>
  ELSE Handling(d - 1) \o <<Event("date", d), Event("flush", d), Event("poll", d)>>

IsPrefix(a, b) == Len(a) <= Len(b) /\ a = SubSeq(b, 1, Len(a))

StartDateRolloverMonitor ==
  /\ shutdownPc = "running"
  /\ dateMonitorStopChan = "nil"
  /\ monitorLoop.pc = "none"
  /\ dateMonitorStopChan' = "chan"
  /\ monitorLoop' = [pc |-> "loop", stop |-> "nil"]
  /\ UNCHANGED <<shutdownPc, stopChanClosed>>

\* what the unsynchronised read of the field can yield: its value, or the
\* value it had before Stop wrote nil
FieldRead == {dateMonitorStopChan} \cup (IF shutdownPc = "running" THEN {} ELSE {"chan"})

\* dateRolloverMonitor enters the select: the channel operand is evaluated
MonitorSelect ==
  /\ monitorLoop.pc = "loop"
  /\ \E c \in FieldRead : monitorLoop' = [pc |-> "select", stop |-> c]
  /\ UNCHANGED <<shutdownPc, dateMonitorStopChan, stopChanClosed>>

\* case <-dcc.dateMonitorStopChan: return, and the deferred Done
MonitorStopReceived ==
  /\ monitorLoop.pc = "select"
  /\ monitorLoop.stop = "chan"
  /\ stopChanClosed
  /\ monitorLoop' = [monitorLoop EXCEPT !.pc = "returned"]
  /\ UNCHANGED <<shutdownPc, dateMonitorStopChan, stopChanClosed>>

\* case <-ticker.C
MonitorTick ==
  /\ monitorLoop.pc = "select"
  /\ monitorLoop' = [monitorLoop EXCEPT !.pc = "check"]
  /\ UNCHANGED <<shutdownPc, dateMonitorStopChan, stopChanClosed>>

\* checkDateRollover returns: the tracked date is the market date
MonitorCheck ==
  /\ monitorLoop.pc = "check"
  /\ currentMarketDate' = TrackedDate(marketDate)
  /\ monitorLoop' = [monitorLoop EXCEPT !.pc = "loop"]
  /\ UNCHANGED <<shutdownPc, dateMonitorStopChan, stopChanClosed>>

\* dateRolloverMonitor: one step of the goroutine
dateRolloverMonitor ==
  \/ MonitorSelect /\ UNCHANGED currentMarketDate
  \/ MonitorStopReceived /\ UNCHANGED currentMarketDate
  \/ MonitorTick /\ UNCHANGED currentMarketDate
  \/ MonitorCheck

\* ServiceShutdown up to the call of StopDateRolloverMonitor
ShutdownBegin ==
  /\ shutdownPc = "running"
  /\ shuttingDown' = TRUE
  /\ shutdownPc' = "stopMonitor"
  /\ UNCHANGED <<dateMonitorStopChan, stopChanClosed, monitorLoop>>

\* StopDateRolloverMonitor under the mutex: stopChan := the field; the field := nil
StopTakeChan ==
  /\ shutdownPc = "stopMonitor"
  /\ dateMonitorStopChan' = "nil"
  /\ shutdownPc' = IF dateMonitorStopChan = "nil" THEN "stopScheduler" ELSE "closeChan"
  /\ UNCHANGED <<stopChanClosed, monitorLoop>>

\* close(stopChan)
StopCloseChan ==
  /\ shutdownPc = "closeChan"
  /\ stopChanClosed' = TRUE
  /\ shutdownPc' = "wait"
  /\ UNCHANGED <<dateMonitorStopChan, monitorLoop>>

\* dcc.dateMonitorWg.Wait() returns once the goroutine has returned
StopWait ==
  /\ shutdownPc = "wait"
  /\ monitorLoop.pc = "returned"
  /\ shutdownPc' = "stopScheduler"
  /\ UNCHANGED <<dateMonitorStopChan, stopChanClosed, monitorLoop>>

\* StopDateRolloverMonitor: one step of the call
StopDateRolloverMonitor == StopTakeChan \/ StopCloseChan \/ StopWait

\* perTickerScheduler.Stop
ShutdownSchedulerStop ==
  /\ shutdownPc = "stopScheduler"
  /\ Stop
  /\ shutdownPc' = "closeWriter"
  /\ UNCHANGED <<dateMonitorStopChan, stopChanClosed, monitorLoop>>

\* dataWriter.Close up to pool.Close
ShutdownWriterClose ==
  /\ shutdownPc = "closeWriter"
  /\ CloseFlush(WriterTicker)
  /\ shutdownPc' = "closePool"
  /\ UNCHANGED <<dateMonitorStopChan, stopChanClosed, monitorLoop>>

\* pool.Close, dataLoader.Close, apiClient.Close, return nil
ShutdownPoolClose ==
  /\ shutdownPc = "closePool"
  /\ PoolClose
  /\ shutdownPc' = "done"
  /\ UNCHANGED <<dateMonitorStopChan, stopChanClosed, monitorLoop>>

(***************************************************************************)
(* Specification of the shutdown: the application runs one ticker          *)
(* goroutine that waits on its timer, the market date changes while the    *)
(* monitor runs, and ServiceShutdown is called at any moment.  Each        *)
(* goroutine that can take a step takes one; a select with a closed        *)
(* channel among its cases takes it, the ticker being ready only once in   *)
(* thirty seconds.                                                         *)
(***************************************************************************)
shutdownFrame == <<now, trackerVars, obsVars, schedVars, marketOpen, workers, queries,
                   tickersInProgress, pendingWrites, httpVars, queueVars, rolloverLog, monitor,
                   lastReady, lastCall, utilVars>>
monitorFrame == <<shutdownFrame, shuttingDown, writerVars, loopVars, isRunning>>

ShutdownStart ==
  StartDateRolloverMonitor /\ UNCHANGED <<monitorFrame, marketDate, currentMarketDate>>

ShutdownDateChanges ==
  /\ marketDate < MaxDates
  /\ marketDate' = marketDate + 1
  /\ UNCHANGED <<monitorFrame, currentMarketDate, shutdownVars>>

ShutdownMonitor ==
  dateRolloverMonitor /\ UNCHANGED <<monitorFrame, marketDate>>

ShutdownMonitorStopReceived ==
  MonitorStopReceived /\ UNCHANGED <<monitorFrame, marketDate, currentMarketDate>>

ShutdownStopMonitor ==
  /\ StopDateRolloverMonitor
  /\ UNCHANGED <<monitorFrame, marketDate, currentMarketDate>>

ShutdownSteps ==
  \/ /\ ShutdownBegin
     /\ UNCHANGED <<shutdownFrame, writerVars, loopVars, isRunning, marketDate, currentMarketDate>>
  \/ ShutdownStopMonitor
  \/ /\ ShutdownSchedulerStop
     /\ UNCHANGED <<shutdownFrame, shuttingDown, writerVars, marketDate, currentMarketDate>>
  \/ /\ ShutdownWriterClose \/ ShutdownPoolClose
     /\ UNCHANGED <<shutdownFrame, shuttingDown, loopVars, isRunning, marketDate,
                    currentMarketDate>>

ShutdownWorkerStopped ==
  /\ \E g \in DOMAIN goroutines : LoopStopped(g)
  /\ UNCHANGED <<now, loopFrame>>

NextShutdown ==
  \/ ShutdownStart
  \/ ShutdownDateChanges
  \/ ShutdownMonitor
  \/ ShutdownSteps
  \/ ShutdownWorkerStopped

InitShutdown ==
  /\ now = 0
  /\ NewRateLimitTracker
  /\ InitObs
  /\ NewUnifiedAdaptiveScheduler
  /\ enabledTickers = Ascending(LoopTickers)
  /\ tickerConfigs = [t \in LoopTickers |-> [Priority |-> "medium", RefreshRateMs |-> << >>]]
  /\ displayedTickers = LoopTickers
  /\ marketOpen = TRUE
  /\ shuttingDown = FALSE
  /\ workers = << >>
  /\ queries = << >>
  /\ tickersInProgress = {}
  /\ pendingWrites = << >>
  /\ lastReq = << >>
  /\ windowLog = << >>
  /\ NewDataWriter
  /\ NewPriorityWriteQueue
  /\ goroutines = [k \in DOMAIN Ascending(LoopTickers) |->
                     [NewGoroutine(Ascending(LoopTickers)[k]) EXCEPT !.pc = "waiting"]]
  /\ tickerGoroutines = [t \in LoopTickers |-> CHOOSE k \in DOMAIN goroutines : goroutines[k].ticker = t]
  /\ isRunning = TRUE
  /\ lastReady = NoReady
  /\ lastCall = NoSchedulerCall
  /\ NoMonitor

SpecShutdown ==
  /\ InitShutdown
  /\ [][NextShutdown]_vars
  /\ WF_vars(ShutdownSteps)
  /\ WF_vars(ShutdownMonitor)
  /\ SF_vars(ShutdownMonitorStopReceived)
  /\ WF_vars(ShutdownWorkerStopped)

\* C21: ServiceShutdown always terminates: once it has been called it reaches
\* its return, whatever the monitor goroutine is doing when
\* StopDateRolloverMonitor is called
ShutdownTerminates == (shutdownPc # "running") ~> (shutdownPc = "done")

\* the state the shutdown does not leave: Stop waits for a goroutine whose
\* select waits on a nil channel
StopWaitsForever ==
  shutdownPc = "wait" /\ monitorLoop.pc = "select" /\ monitorLoop.stop = "nil"

(***************************************************************************)
(* Specification of the polling loop of two tickers: the application calls *)
(* UpdateTickers, Start and Stop, the market opens and closes, a goroutine *)
(* panics in its loop or inside its onTickerReady callback, and the clock  *)
(* advances in steps of one minute.                                        *)
(***************************************************************************)
\* a panic in goroutine g, in the loop or inside ProcessTickerBatch
LoopPanic(g) ==
  /\ goroutines[g].pc \in {"timer", "fetching"}
  /\ goroutines' = PanicRecovered(g)
  /\ UNCHANGED <<lastFetchTimes, enabledTickers, tickersInProgress, pendingWrites,
                 tickerGoroutines, lastReady>>

pollFrame == <<trackerVars, obsVars, tickerConfigs, endpointFetchTimes, displayedTickers,
               intervalRet, shuttingDown, workers, queries, httpVars,
               writerVars, queueVars, rolloverVars, shutdownVars, utilVars>>

PollCalled(op, list) == [op |-> op, list |-> list]

PollUpdateTickers ==
  /\ \E tickers \in SUBSET EngineTickers :
       /\ isRunning =>
            Len(goroutines) + Cardinality(tickers \ DOMAIN tickerGoroutines) <= MaxPollGoroutines
       /\ UpdateTickers(tickers)
       /\ enabledTickers' = Ascending(tickers)
       /\ lastCall' = PollCalled("UpdateTickers", tickers)
  /\ UNCHANGED <<now, marketOpen, isRunning, lastFetchTimes, tickersInProgress, pendingWrites,
                 lastReady, pollFrame>>

PollStart ==
  /\ ~isRunning => Len(goroutines) + Len(enabledTickers) <= MaxPollGoroutines
  /\ Start
  /\ lastCall' = PollCalled("Start", lastCall.list)
  /\ UNCHANGED <<now, marketOpen, enabledTickers, lastFetchTimes, tickersInProgress,
                 pendingWrites, lastReady, pollFrame>>

PollStop ==
  /\ Stop
  /\ lastCall' = PollCalled("Stop", lastCall.list)
  /\ UNCHANGED <<now, marketOpen, enabledTickers, lastFetchTimes, tickersInProgress,
                 pendingWrites, lastReady, pollFrame>>

PollMarket ==
  /\ marketOpen' = ~marketOpen
  /\ UNCHANGED <<now, isRunning, lastCall, enabledTickers, lastFetchTimes, tickersInProgress,
                 pendingWrites, lastReady, loopVars, pollFrame>>

\* the clock advances by the interval of a timer armed while the market is closed
PollTick ==
  /\ Unix + PollStepSecs <= MaxPollSteps * PollStepSecs
  /\ now' = now + PollStepSecs * 1000
  /\ UNCHANGED <<marketOpen, isRunning, lastCall, enabledTickers, lastFetchTimes,
                 tickersInProgress, pendingWrites, lastReady, loopVars, pollFrame>>

pollStepFrame == <<now, marketOpen, isRunning, lastCall, pollFrame>>

PollStartup(g) == LoopStartup(g) /\ UNCHANGED pollStepFrame
PollArmTimer(g) == LoopArmTimer(g) /\ UNCHANGED pollStepFrame
PollTimerFires(g) == LoopTimerFires(g) /\ UNCHANGED pollStepFrame
PollStopped(g) == LoopStopped(g) /\ UNCHANGED pollStepFrame
PollFetch(g, e) == LoopFetch(g, e) /\ UNCHANGED pollStepFrame
PollBatchFinish(g) == LoopBatchFinish(g) /\ UNCHANGED pollStepFrame
PollPanic(g) ==
  /\ Cardinality(Panicked) < MaxPanics
  /\ LoopPanic(g)
  /\ UNCHANGED pollStepFrame

NextPolling ==
  \/ PollMarket
  \/ PollTick
  \/ \E g \in DOMAIN goroutines : PollStartup(g)
  \/ \E g \in DOMAIN goroutines : PollArmTimer(g)
  \/ \E g \in DOMAIN goroutines : PollTimerFires(g)
  \/ \E g \in DOMAIN goroutines, e \in Endpoints : PollFetch(g, e)
  \/ \E g \in DOMAIN goroutines : PollBatchFinish(g)
  \/ \E g \in DOMAIN goroutines : PollPanic(g)

\* the scheduler with its tickers, none displayed but one
PollScheduler ==
  /\ now = 0
  /\ NewRateLimitTracker
  /\ InitObs
  /\ NewUnifiedAdaptiveScheduler
  /\ tickerConfigs = [t \in EngineTickers |-> [Priority |-> "medium", RefreshRateMs |-> << >>]]
  /\ displayedTickers = {WriterTicker}
  /\ marketOpen = FALSE
  /\ shuttingDown = FALSE
  /\ workers = << >>
  /\ queries = << >>
  /\ tickersInProgress = {}
  /\ pendingWrites = << >>
  /\ lastReq = << >>
  /\ windowLog = << >>
  /\ NewDataWriter
  /\ NewPriorityWriteQueue
  /\ NoMonitor

\* ServiceStartup has called Start with both tickers enabled, the market closed
InitPolling ==
  /\ PollScheduler
  /\ enabledTickers = Ascending(EngineTickers)
  /\ goroutines = [k \in DOMAIN enabledTickers |-> NewGoroutine(enabledTickers[k])]
  /\ tickerGoroutines = [t \in EngineTickers |->
                           CHOOSE k \in DOMAIN goroutines : goroutines[k].ticker = t]
  /\ isRunning = TRUE
  /\ lastReady = NoReady
  /\ lastCall = [NoSchedulerCall EXCEPT !.list = EngineTickers]

SpecPolling == InitPolling /\ [][NextPolling]_vars

(***************************************************************************)
(* Specification of the scheduler's list: the application calls            *)
(* UpdateTickers, Start and Stop in any order while the market is closed,  *)
(* and the goroutines start, arm their timers and return when told to.     *)
(***************************************************************************)
NextTickers ==
  \/ PollUpdateTickers
  \/ PollStart
  \/ PollStop
  \/ PollTick
  \/ \E g \in DOMAIN goroutines : PollStartup(g)
  \/ \E g \in DOMAIN goroutines : PollArmTimer(g)
  \/ \E g \in DOMAIN goroutines : PollTimerFires(g)
  \/ \E g \in DOMAIN goroutines : PollStopped(g)

\* NewApp has built the scheduler: no list yet, not running
InitTickers ==
  /\ PollScheduler
  /\ enabledTickers = << >>
  /\ NoLoop

SpecTickers == InitTickers /\ [][NextTickers]_vars

\* the goroutines started by the step
Spawned == DOMAIN goroutines' \ DOMAIN goroutines

ReadyOnlyWhenOpen ==
  /\ [](lastReady.on # "none" => (lastReady.open \/ AllowAfterHours))
  /\ [][\A g \in DOMAIN goroutines :
          LET emits(on) ==
                IF marketOpen \/ AllowAfterHours
                THEN lastReady' = [g |-> g, on |-> on, open |-> marketOpen, dead |-> Panicked]
                ELSE lastReady' = lastReady /\ goroutines'[g].pc = "timer"
          IN /\ (goroutines[g].pc = "startup" /\ goroutines'[g].pc # "startup")
                  => emits("startup")
             /\ (goroutines[g].pc = "waiting" /\ goroutines'[g].pc \notin {"waiting", "exited"})
                  => emits("timer")
             /\ (goroutines[g].pc = "timer" /\ goroutines'[g].pc = "waiting"
                   /\ ~marketOpen /\ ~AllowAfterHours)
                  => goroutines'[g].deadline = now + 60000]_vars

\* a timer armed for 60 s while the market was closed has fired after the
\* market opened, and the goroutine called onTickerReady
ReadyAfterClosedWait == lastReady.on = "timer" /\ lastReady.open /\ now >= 60000

\* C24: UpdateTickers(L) on a running scheduler leaves exactly the tickers of
\* L registered: the goroutine of a ticker not in L is told to stop, a
\* ticker of L that had none gets exactly one new goroutine, the goroutines
\* of the others are untouched; on a scheduler that is not running it starts
\* none, and Start then starts one goroutine for each ticker of the last list
UpdateTickersExact ==
  [][lastCall' # lastCall =>
       LET L == lastCall'.list
           had == DOMAIN tickerGoroutines
           OneNew(t) ==
             /\ Cardinality({n \in Spawned : goroutines'[n].ticker = t}) = 1
             /\ t \in DOMAIN tickerGoroutines'
             /\ tickerGoroutines'[t] \in Spawned
             /\ goroutines'[tickerGoroutines'[t]] = NewGoroutine(t)
       IN /\ (lastCall'.op = "UpdateTickers" /\ isRunning)
               => /\ DOMAIN tickerGoroutines' = L
                  /\ \A t \in had \ L : goroutines'[tickerGoroutines[t]].stopped
                  /\ \A t \in had \cap L :
                       /\ tickerGoroutines'[t] = tickerGoroutines[t]
                       /\ goroutines'[tickerGoroutines[t]] = goroutines[tickerGoroutines[t]]
                  /\ \A t \in L \ had : OneNew(t)
                  /\ Cardinality(Spawned) = Cardinality(L \ had)
          /\ (lastCall'.op = "UpdateTickers" /\ ~isRunning) => Spawned = {}
          /\ (lastCall'.op = "Start" /\ ~isRunning)
               => /\ \A t \in lastCall.list : OneNew(t)
                  /\ Cardinality(Spawned) = Cardinality(lastCall.list)
                  /\ isRunning']_vars

\* a list was set while the scheduler was not running, Start started its
\* goroutines, and a later UpdateTickers stopped one and started another
StartedThenUpdated ==
  /\ lastCall.op = "UpdateTickers"
  /\ isRunning
  /\ \E g \in DOMAIN goroutines :
       goroutines[g].stopped /\ goroutines[g].ticker \notin lastCall.list
  /\ \E t \in lastCall.list :
       /\ t \in DOMAIN tickerGoroutines
       /\ tickerGoroutines[t] = Len(goroutines)
       /\ goroutines[Len(goroutines)] = NewGoroutine(t)
       /\ Len(goroutines) > Cardinality(lastCall.list)

(***************************************************************************)
(* The date of the directory a row is written to.  A time in Eastern Time  *)
(* is the number of its day since 1970-01-01 and the second of that day;   *)
(* Eastern Time is taken at its standard offset.  A timestamp is in        *)
(* seconds.                                                                *)
(***************************************************************************)
SecondsPerDay == 86400
EasternOffset == 18000     \* America/New_York, standard time: UTC - 5 h
EpochWeekday == 4          \* 1970-01-01 was a Thursday; Sunday = 0 as in Go
RolloverSecond == 30600    \* 08:30:00
Saturday == 6
Sunday == 0
MaxCalendarDays == 14

\* time.Unix(timestamp, 0).In(MARKET_TIMEZONE)
InMarketTimezone(timestamp) ==
  [day |-> (timestamp - EasternOffset) \div SecondsPerDay,
   sec |-> (timestamp - EasternOffset) % SecondsPerDay]

Weekday(date) == (date.day + EpochWeekday) % 7

AddDate(date, days) == [date EXCEPT !.day = @ + days]

IsWeekend(date) == Weekday(date) \in {Saturday, Sunday}

GetLastTradingDay(date) ==
  IF Weekday(date) = Saturday THEN AddDate(date, -1)
  ELSE IF Weekday(date) = Sunday THEN AddDate(date, -2)
  ELSE date

GetMarketDateForDate(date) ==
  IF IsWeekend(date) THEN GetLastTradingDay(date)
  ELSE IF date.sec < RolloverSecond THEN AddDate(date, -1)
  ELSE date

\* WriteDataEntry: entryDate, the market date of the timestamp at midnight
EntryDate(timestamp) ==
  [GetMarketDateForDate(InMarketTimezone(timestamp)) EXCEPT !.sec = 0]

\* a path whose directory carries the date it is given
getDBPathAsGiven(date) == date.day

\* getDBPath: the day of the directory name
getDBPath(date) == IF IsWeekend(date) THEN GetLastTradingDay(date).day ELSE date.day

\* the directory of the row with this timestamp
DirectoryDay(timestamp) == getDBPath(EntryDate(timestamp))

(***************************************************************************)
(* Specification of the directory date: a timestamp of any weekday and of  *)
(* a time of day around the rollover, midnight and noon is written.        *)
(***************************************************************************)
TimesOfDay == {0, RolloverSecond - 1, RolloverSecond, RolloverSecond + 1,
               SecondsPerDay \div 2, SecondsPerDay - 1}

CalendarTimestamps ==
  {day * SecondsPerDay + sec + EasternOffset : day \in 1..MaxCalendarDays, sec \in TimesOfDay}

hostFrame == <<trackerVars, obsVars, schedVars, engineVars, httpVars, writerVars, queueVars,
               loopVars, rolloverVars, shutdownVars, isRunning, lastReady, lastCall>>
utilFrame == <<now, hostFrame, poolVars, cacheVars>>

DirectoryOf ==
  /\ res = << >>
  /\ res' = <<DirectoryDay(arg)>>
  /\ UNCHANGED <<arg, utilFrame>>

\* the application at rest, for the specifications of package utils
UtilHost ==
  /\ now = 0
  /\ NewRateLimitTracker
  /\ InitObs
  /\ NewUnifiedAdaptiveScheduler
  /\ enabledTickers = << >>
  /\ tickerConfigs = << >>
  /\ displayedTickers = {}
  /\ marketOpen = FALSE
  /\ shuttingDown = FALSE
  /\ workers = << >>
  /\ queries = << >>
  /\ tickersInProgress = {}
  /\ pendingWrites = << >>
  /\ lastReq = << >>
  /\ windowLog = << >>
  /\ NewDataWriter
  /\ NewPriorityWriteQueue
  /\ NoLoop
  /\ NoRollover
  /\ NoShutdown

InitDirectory ==
  /\ UtilHost
  /\ NewConnectionPool
  /\ NewQueryCache
  /\ arg \in CalendarTimestamps
  /\ res = << >>

SpecDirectory == InitDirectory /\ [][DirectoryOf]_vars

\* the Eastern-Time day of the timestamp, the day before when the time is
\* before 08:30, then the Friday before when that day is a Saturday or a Sunday
RolledThenFriday(timestamp) ==
  LET et == InMarketTimezone(timestamp)
      rolled == IF et.sec < RolloverSecond THEN et.day - 1 ELSE et.day
      weekday == (rolled + EpochWeekday) % 7
  IN IF weekday = Saturday THEN rolled - 1
     ELSE IF weekday = Sunday THEN rolled - 2
     ELSE rolled

\* C25: the date of the directory of a row is the Eastern-Time date of its
\* timestamp, moved to the day before when the time is before 08:30 and then
\* from a Saturday or Sunday to the Friday before; it is never a weekend day
DirectoryDateRule ==
  res # << >> =>
    /\ res[1] = RolledThenFriday(arg)
    /\ (res[1] + EpochWeekday) % 7 \notin {Saturday, Sunday}

\* a row stamped on a Monday before 08:30 was given its directory
MondayBeforeRollover ==
  /\ res # << >>
  /\ Weekday(InMarketTimezone(arg)) = 1
  /\ InMarketTimezone(arg).sec < RolloverSecond
  /\ res[1] = InMarketTimezone(arg).day - 3

(***************************************************************************)
(* sanitizeFieldName.  A field name is a sequence of characters; the       *)
(* alphabet holds a letter, a digit, the underscore, one of the separators *)
(* the function names and a character that is none of these.               *)
(***************************************************************************)
MaxNameLen == 4
Letters == {"a"}
Digits == {"7"}
Separators == {"-"}
NameAlphabet == Letters \cup Digits \cup Separators \cup {"_", "#"}

\* the loop over the runes: what is not a letter, a digit or an underscore
\* becomes an underscore
ReplaceSpecial(field) ==
  [i \in DOMAIN field |->
     IF field[i] \in Separators THEN "_"
     ELSE IF field[i] \in Letters \cup Digits \cup {"_"} THEN field[i]
     ELSE "_"]

\* removes one underscore at each end
TrimOne(str) ==
  LET front == IF Len(str) > 0 /\ str[1] = "_" THEN Tail(str) ELSE str
  IN IF Len(front) > 0 /\ front[Len(front)] = "_" THEN SubSeq(front, 1, Len(front) - 1)
     ELSE front

\* strings.Trim(sanitized, "_")
RECURSIVE Trim(_)
Trim(str) ==
  IF Len(str) > 0 /\ str[1] = "_" THEN Trim(Tail(str))
  ELSE IF Len(str) > 0 /\ str[Len(str)] = "_" THEN Trim(SubSeq(str, 1, Len(str) - 1))
  ELSE str

\* sanitizeFieldName with one underscore removed at each end
sanitizeTrimOne(field) ==
  LET sanitized == TrimOne(ReplaceSpecial(field))
  IN IF Len(sanitized) > 0 /\ sanitized[1] \notin Letters \cup {"_"}
     THEN <<"_">> \o sanitized
     ELSE sanitized

sanitizeFieldName(field) ==
  LET sanitized == Trim(ReplaceSpecial(field))
  IN IF Len(sanitized) > 0 /\ sanitized[1] \notin Letters \cup {"_"}
     THEN <<"_">> \o sanitized
     ELSE sanitized

(***************************************************************************)
(* Specification of sanitizeFieldName: it is applied to a field name, then *)
(* to its own result.                                                      *)
(***************************************************************************)
RECURSIVE NamesOfLen(_)
NamesOfLen(n) ==
  IF n = 0 THEN {<< >>}
  ELSE {<<c>> \o name : c \in NameAlphabet, name \in NamesOfLen(n - 1)}

FieldNames == UNION {NamesOfLen(n) : n \in 0..MaxNameLen}

Sanitize ==
  /\ Len(res) < 2
  /\ res' = Append(res, sanitizeFieldName(IF res = << >> THEN arg ELSE res[1]))
  /\ UNCHANGED <<arg, utilFrame>>

InitSanitize ==
  /\ UtilHost
  /\ NewConnectionPool
  /\ NewQueryCache
  /\ arg \in FieldNames
  /\ res = << >>

SpecSanitize == InitSanitize /\ [][Sanitize]_vars

\* C26: sanitizeFieldName is idempotent: applied to its own result it
\* returns that result
SanitizeIdempotent == Len(res) = 2 => res[2] = res[1]

\* the name began with underscores and a digit: the first call trimmed the
\* underscores and put one in front, and the second call was made
SanitizedDigitFirst ==
  /\ Len(res) = 2
  /\ Len(arg) > 2 /\ arg[1] = "_" /\ arg[2] = "_" /\ arg[3] \in Digits
  /\ res[1][1] = "_" /\ res[1][2] \in Digits

(***************************************************************************)
(* ConnectionPool.  A connection is its path and the time it was last      *)
(* used.                                                                   *)
(***************************************************************************)
DBConnectionPoolMaxSize == 20
SQLiteConnectionIdleTimeoutSeconds == 10
SQLiteConnectionCleanupIntervalSeconds == 5
MaxPoolPaths == 21
MaxPoolSecs == 15

\* GetConnection(filepath): a pooled connection that answers the ping is
\* used again; else a connection is opened and pooled; when opening or
\* configuring fails nothing is pooled for the path
GetConnection(filepath, outcome) ==
  /\ outcome = "pooled" => filepath \in DOMAIN connections
  /\ connections' = IF outcome = "failed" THEN MapDelete(connections, filepath)
                    ELSE MapSet(connections, filepath, now)

\* cleanupIdleConnections
cleanupIdleConnections(at) ==
  connections' = [f \in {g \in DOMAIN connections :
                           at - connections[g] <= SQLiteConnectionIdleTimeoutSeconds * 1000} |->
                    connections[f]]

(***************************************************************************)
(* Specification of the pool: connections are asked for the first path and *)
(* for one new path after the other, and the cleanup timer fires every     *)
(* five seconds.                                                           *)
(***************************************************************************)
NextPath ==
  IF DOMAIN connections = {} THEN 1
  ELSE 1 + CHOOSE f \in DOMAIN connections : \A g \in DOMAIN connections : g <= f

PoolGet ==
  /\ \E filepath \in {1, NextPath} \cap 1..MaxPoolPaths,
        outcome \in {"pooled", "opened", "failed"} :
       GetConnection(filepath, outcome)
  /\ UNCHANGED <<now, arg, res, cacheVars, hostFrame>>

PoolCleanupTimer ==
  /\ Unix + SQLiteConnectionCleanupIntervalSeconds <= MaxPoolSecs
  /\ now' = now + SQLiteConnectionCleanupIntervalSeconds * 1000
  /\ cleanupIdleConnections(now')
  /\ UNCHANGED <<arg, res, cacheVars, hostFrame>>

NextPool == PoolGet \/ PoolCleanupTimer

InitPool ==
  /\ UtilHost
  /\ NoUtil

SpecPool == InitPool /\ [][NextPool]_vars

\* C27: the pool never holds more than 20 open connections
PoolBounded == Cardinality(DOMAIN connections) <= DBConnectionPoolMaxSize

(***************************************************************************)
(* QueryCache.  An entry is the time it was set.                           *)
(***************************************************************************)
QueryCacheMaxSize == 50
QueryCacheTTL == 5000
MaxCacheKeys == 51
MaxCacheSteps == 1
CacheStepSecs == 6
CacheGetKeys == {1}

Without(order, keys) == SelectSeq(order, LAMBDA k : k \notin keys)

\* updateAccessOrder
updateAccessOrder(order, key) == Append(Without(order, {key}), key)

Expired(at) == {k \in DOMAIN cache : at - cache[k].Timestamp > QueryCacheTTL}

\* Get(key): the entry when it exists and is not expired
Get(key) ==
  LET hit == key \in DOMAIN cache /\ ~(now - cache[key].Timestamp > QueryCacheTTL)
  IN /\ res' = <<[op |-> "Get", key |-> key, hit |-> hit,
                  age |-> IF hit THEN now - cache[key].Timestamp ELSE 0,
                  evicted |-> {}, lru |-> 0]>>
     /\ useOrder' = IF hit THEN updateAccessOrder(useOrder, key) ELSE useOrder
     /\ UNCHANGED <<cache, accessOrder>>

\* Set(key, data): cleanupExpired, the eviction of accessOrder[0] when the
\* cache is full and the key is new, the entry, updateAccessOrder
Set(key) ==
  LET live == [k \in DOMAIN cache \ Expired(now) |-> cache[k]]
      order == Without(accessOrder, Expired(now))
      used == Without(useOrder, Expired(now))
      evict == Cardinality(DOMAIN live) >= QueryCacheMaxSize /\ key \notin DOMAIN live
                 /\ Len(order) > 0
      evicted == IF evict THEN {order[1]} ELSE {}
  IN /\ cache' = MapSet([k \in DOMAIN live \ evicted |-> live[k]], key, [Timestamp |-> now])
     /\ accessOrder' = updateAccessOrder(Without(order, evicted), key)
     /\ useOrder' = updateAccessOrder(Without(used, evicted), key)
     /\ res' = <<[op |-> "Set", key |-> key, hit |-> FALSE, age |-> 0,
                  evicted |-> evicted, lru |-> IF Len(used) > 0 THEN used[1] ELSE 0]>>

(***************************************************************************)
(* Specification of the cache: one new key after the other is set, the     *)
(* first key is looked up, and the clock advances in steps of six seconds. *)
(***************************************************************************)
NextKey ==
  IF DOMAIN cache = {} THEN 1
  ELSE 1 + CHOOSE k \in DOMAIN cache : \A j \in DOMAIN cache : j <= k

CacheSet ==
  /\ \E key \in {NextKey} \cap 1..MaxCacheKeys : Set(key)
  /\ UNCHANGED <<now, arg, poolVars, hostFrame>>

CacheGet ==
  /\ \E key \in CacheGetKeys : Get(key)
  /\ UNCHANGED <<now, arg, poolVars, hostFrame>>

CacheTick ==
  /\ Unix + CacheStepSecs <= MaxCacheSteps * CacheStepSecs
  /\ now' = now + CacheStepSecs * 1000
  /\ UNCHANGED <<arg, res, poolVars, cacheVars, hostFrame>>

NextCache == CacheSet \/ CacheGet \/ CacheTick

SpecCache == InitPool /\ [][NextCache]_vars

\* C28: the cache holds at most 50 entries, Get returns no entry older than
\* 5 s, and the entry a Set evicts from a full cache is the one that was
\* set or returned by Get the longest ago
CacheLRU ==
  /\ Cardinality(DOMAIN cache) <= QueryCacheMaxSize
  /\ res # << >> =>
       /\ res[1].hit => res[1].age <= QueryCacheTTL
       /\ res[1].evicted # {} => res[1].evicted = {res[1].lru}

\* ---------------------------------------------------------------------------
\* The flush rule of WriteDataEntry and the background flusher, on one ticker.
\* arg records, per accepted write, when WriteDataEntry accepted it and its
\* isActive argument; res holds the isActive argument of the latest call.
\* The flusher receives its tick before the next one is due, and a flush
\* attempt finishes within the second in which it started.
\* ---------------------------------------------------------------------------
FlusherPeriod == 1000

FlusherWrite ==
  /\ accepted < MaxWrites
  /\ \E isActive \in BOOLEAN :
       /\ WriteDataEntryEffect(WriterTicker, MarketDay, accepted + 1, isActive)
       /\ arg' = MapSet(arg, accepted + 1, [at |-> now, isActive |-> isActive])
       /\ res' = <<isActive>>
  /\ UNCHANGED <<now, trackerVars, obsVars, schedVars, engineVars, httpVars, queueVars,
                 loopVars, rolloverVars, shutdownVars, isRunning, lastReady, lastCall,
                 poolVars, cacheVars>>

FlusherTick ==
  /\ Unix + 1 <= MaxFlusherSecs
  /\ ~bgDue
  /\ flushes = << >>
  /\ now' = now + FlusherPeriod
  /\ bgDue' = TRUE
  /\ UNCHANGED <<writerPending, firstPendingTime, lastFlushTime, dbRows, flushes, closePc,
                 accepted, settled, flushRet>>
  /\ UNCHANGED <<trackerVars, obsVars, schedVars, engineVars, httpVars, queueVars, loopVars,
                 rolloverVars, serviceVars>>

NextFlusher ==
  \/ FlusherWrite
  \/ WriterFlushTake
  \/ WriterFlushCommit
  \/ WriterFlushFail
  \/ WriterBackground
  \/ FlusherTick

SpecFlusher == InitWriter /\ [][NextFlusher]_vars

AcceptedAt(write) == arg[write.id].at

OldestPendingAge(pending, accepts) ==
  LET oldest == CHOOSE k \in DOMAIN pending :
                  \A j \in DOMAIN pending : accepts[pending[k].id].at <= accepts[pending[j].id].at
  IN now - accepts[pending[oldest].id].at

\* C29: a WriteDataEntry call starts a flush when it is the first write ever
\* accepted for the ticker and when isActive is true; a later collection write
\* starts one only if 5 writes are pending or the oldest pending write is at
\* least 2 s old
WriteFlushRule ==
  [][accepted' = accepted + 1 =>
       LET started == Len(flushes') = Len(flushes) + 1
           isActive == res'[1]
           pending == writerPending'[WriterTicker]
       IN /\ (accepted = 0 \/ isActive) => started
          /\ (accepted # 0 /\ ~isActive /\ started) =>
               \/ Len(pending) >= FileWriteCountThresholdCollection
               \/ OldestPendingAge(pending, arg') >=
                    FileWriteIntervalCollectionSec * 1000]_vars

\* C30: a collection write is not left pending past one flusher period after
\* the oldest pending write became 2 s old, re-appended writes included
FlusherDeadline ==
  \A k \in DOMAIN Pending(WriterTicker) :
    LET write == Pending(WriterTicker)[k]
    IN ~arg[write.id].isActive =>
         now - AcceptedAt(write) <= FileWriteIntervalCollectionSec * 1000 + FlusherPeriod

\* ---------------------------------------------------------------------------
\* deduplicateWrites on its own: arg is the slice handed to it, res its result.
\* ---------------------------------------------------------------------------
MaxDedupWrites == 3
DedupTimestamps == {0, 100, 101, 250, 350}

DedupInputs ==
  UNION {{[k \in 1..n |-> [id |-> k, Timestamp |-> ts[k]]] : ts \in [1..n -> DedupTimestamps]} :
           n \in 0..MaxDedupWrites}

Deduplicate ==
  /\ res = << >>
  /\ res' = <<deduplicateWrites(arg, DedupTolerance)>>
  /\ UNCHANGED <<arg, utilFrame>>

InitDedup ==
  /\ UtilHost
  /\ NewConnectionPool
  /\ NewQueryCache
  /\ arg \in DedupInputs
  /\ res = << >>

SpecDedup == InitDedup /\ [][Deduplicate]_vars

TimestampsOf(writes) == {writes[k].Timestamp : k \in DOMAIN writes}

\* the timestamps that end a run: no other input timestamp follows within the tolerance
RunEnds(writes) ==
  {t \in TimestampsOf(writes) :
     ~\E u \in TimestampsOf(writes) : t < u /\ u - t <= DedupTolerance}

\* C31: the result is ascending, consists of input writes, holds exactly one
\* write for the last timestamp of every run of neighbours at most 0.1 s apart,
\* so its writes are more than 0.1 s apart, the largest timestamp is kept and
\* a non-empty input gives a non-empty result
DedupKeepsLastOfRun ==
  res # << >> =>
    LET out == res[1]
    IN /\ \A k \in DOMAIN out : \E j \in DOMAIN arg : out[k] = arg[j]
       /\ \A k \in DOMAIN out : k > 1 => out[k].Timestamp - out[k - 1].Timestamp > DedupTolerance
       /\ TimestampsOf(out) = RunEnds(arg)
       /\ arg # << >> =>
            /\ out # << >>
            /\ \A j \in DOMAIN arg : arg[j].Timestamp <= out[Len(out)].Timestamp

DedupCollapsedRun ==
  /\ res # << >>
  /\ Len(arg) = 3
  /\ Len(res[1]) = 2
  /\ \E j \in DOMAIN arg : arg[j].Timestamp \notin TimestampsOf(res[1])

\* ---------------------------------------------------------------------------
\* processTask's hand-over to a writer whose WriteDataEntry may return an
\* error.  arg is the running processTask call: the task, the loop variable
\* attempt, lastErr, the outcomes of the WriteDataEntry calls made in the loop
\* and in the fallback, the delays slept and whether the CRITICAL entry of the
\* dropped write was logged.  res lists the finished calls.
\* ---------------------------------------------------------------------------
MaxRetryTasks == 2
maxRetries == 3
retryDelays == <<100, 500, 1000>>

NoTask == [pc |-> "none"]

\* processTask has taken task n out of the map
RetryBegin ==
  /\ arg = << >> \/ arg = NoTask
  /\ Len(res) < MaxRetryTasks
  /\ arg' = [pc |-> "loop", task |-> Len(res) + 1, attempt |-> 0, lastErr |-> FALSE,
             loop |-> << >>, fallback |-> << >>, slept |-> << >>, critical |-> FALSE]
  /\ UNCHANGED <<res, now, hostFrame, poolVars, cacheVars>>

\* one pass of the retry loop: the call, then break, sleep and continue, or
\* the end of the loop after the last attempt
RetryAttempt(err) ==
  /\ arg # << >> /\ arg.pc = "loop"
  /\ arg.attempt < maxRetries
  /\ LET called == [arg EXCEPT !.loop = Append(@, err)]
     IN IF ~err
        THEN arg' = [called EXCEPT !.pc = "after"]
        ELSE IF arg.attempt < maxRetries - 1
             THEN arg' = [called EXCEPT !.lastErr = TRUE, !.pc = "sleep"]
             ELSE arg' = [called EXCEPT !.lastErr = TRUE, !.pc = "after",
                                        !.attempt = @ + 1]
  /\ UNCHANGED <<res, now, hostFrame, poolVars, cacheVars>>

\* time.Sleep(retryDelays[attempt]); continue
RetrySleep ==
  /\ arg # << >> /\ arg.pc = "sleep"
  /\ now' = now + retryDelays[arg.attempt + 1]
  /\ arg' = [arg EXCEPT !.pc = "loop", !.attempt = @ + 1,
                        !.slept = Append(@, retryDelays[arg.attempt + 1])]
  /\ UNCHANGED <<res, hostFrame, poolVars, cacheVars>>

\* after the loop: the synchronous fallback when lastErr is set, and the
\* return when it fails too
RetryAfterLoop(err) ==
  /\ arg # << >> /\ arg.pc = "after"
  /\ IF arg.lastErr
     THEN res' = Append(res, [arg EXCEPT !.pc = "done", !.fallback = <<err>>, !.critical = err])
     ELSE /\ ~err
          /\ res' = Append(res, [arg EXCEPT !.pc = "done"])
  /\ arg' = NoTask
  /\ UNCHANGED <<now, hostFrame, poolVars, cacheVars>>

NextRetry ==
  \/ RetryBegin
  \/ \E err \in BOOLEAN : RetryAttempt(err)
  \/ RetrySleep
  \/ \E err \in BOOLEAN : RetryAfterLoop(err)

InitRetry == UtilHost /\ NoUtil

SpecRetry == InitRetry /\ [][NextRetry]_vars

Failures(calls) == Cardinality({k \in DOMAIN calls : calls[k]})
Successes(calls) == Cardinality({k \in DOMAIN calls : ~calls[k]})

\* C32: a finished processTask has called WriteDataEntry at most 3 times in
\* its loop, slept 100 ms after the first and 500 ms after the second failure,
\* made the fallback call only after 3 failed attempts, handed the task over
\* exactly once when an attempt succeeded, and logged the dropped write when
\* the fallback failed too; the next task is then processed
RetryThenFallback ==
  \A k \in DOMAIN res :
    LET call == res[k]
    IN /\ Len(call.loop) <= maxRetries
       /\ call.slept = SubSeq(retryDelays, 1, Len(call.slept))
       /\ Len(call.slept) = IF Failures(call.loop) < maxRetries THEN Failures(call.loop)
                            ELSE maxRetries - 1
       /\ call.fallback # << >> => Failures(call.loop) = maxRetries
       /\ Successes(call.loop) > 0 => Successes(call.loop \o call.fallback) = 1
       /\ (call.fallback = <<TRUE>>) => call.critical

\* ---------------------------------------------------------------------------
\* One FetchEndpoint call after another, against a server that answers each
\* GET with a transport error or with a response.  arg is the running call:
\* the loop variable attempt, the answers of the GETs made so far and the
\* delays slept; res lists the finished calls with what they returned.
\* ---------------------------------------------------------------------------
MaxFetchCalls == 2
StatusCodes == {200, 401, 403, 429, 500}
Bodies == {"json", "invalid", "unreadable"}

\* what c.httpClient.Get and io.ReadAll come back with
GetAnswers ==
  {[err |-> TRUE, status |-> 0, body |-> "none", retryAfter |-> 0]}
    \cup {[err |-> FALSE, status |-> s, body |-> b, retryAfter |-> ra] :
            s \in StatusCodes, b \in Bodies, ra \in RetryAfterValues}

\* one answer per case the code tells apart
Answers ==
  {a \in GetAnswers : /\ a.status # 429 => a.retryAfter = 0
                      /\ a.status \notin {0, 200} => a.body = "json"}

\* a GET is repeated after any failure, a bad status included
RetriesBadStatus(a) == a.err \/ a.status # 200 \/ a.body = "unreadable"

\* the answers after which the loop sleeps and continues: a transport error,
\* or a 200 whose body could not be read
Retries(a) == a.err \/ (a.status = 200 /\ a.body = "unreadable")

\* the value FetchEndpoint returns when the loop ends on answer a
FetchReturn(a) ==
  IF a.err THEN [kind |-> "transport", code |-> 0, retryAfter |-> 0]
  ELSE IF a.status \in {401, 403} THEN [kind |-> "subscription", code |-> 0, retryAfter |-> 0]
  ELSE IF a.status = 429 THEN [kind |-> "rate_limit", code |-> 0, retryAfter |-> a.retryAfter]
  ELSE IF a.status # 200 THEN [kind |-> "request", code |-> a.status, retryAfter |-> 0]
  ELSE IF a.body = "unreadable" THEN [kind |-> "transport", code |-> 0, retryAfter |-> 0]
  ELSE IF a.body = "invalid" THEN [kind |-> "request", code |-> 0, retryAfter |-> 0]
  ELSE [kind |-> "data", code |-> 0, retryAfter |-> 0]

FetchBegin ==
  /\ arg = << >> \/ arg = NoTask
  /\ Len(res) < MaxFetchCalls
  /\ arg' = [pc |-> "get", attempt |-> 0, gets |-> << >>, slept |-> << >>]
  /\ UNCHANGED <<res, now, hostFrame, poolVars, cacheVars>>

\* one pass of the loop of FetchEndpoint
FetchGet(a) ==
  /\ arg # << >> /\ arg.pc = "get"
  /\ arg.attempt < maxRetries
  /\ LET got == [arg EXCEPT !.gets = Append(@, a)]
     IN IF Retries(a) /\ arg.attempt < maxRetries - 1
        THEN /\ arg' = [got EXCEPT !.pc = "sleep"]
             /\ UNCHANGED res
        ELSE /\ res' = Append(res, [gets |-> got.gets, slept |-> got.slept,
                                    ret |-> FetchReturn(a)])
             /\ arg' = NoTask
  /\ UNCHANGED <<now, hostFrame, poolVars, cacheVars>>

FetchSleep ==
  /\ arg # << >> /\ arg.pc = "sleep"
  /\ now' = now + retryDelays[arg.attempt + 1]
  /\ arg' = [arg EXCEPT !.pc = "get", !.attempt = @ + 1,
                        !.slept = Append(@, retryDelays[arg.attempt + 1])]
  /\ UNCHANGED <<res, hostFrame, poolVars, cacheVars>>

NextFetch ==
  \/ FetchBegin
  \/ \E a \in Answers : FetchGet(a)
  \/ FetchSleep

SpecFetch == InitRetry /\ [][NextFetch]_vars

\* C33: a finished FetchEndpoint call made at most 3 GETs, every GET but the
\* last met a transport error or an unreadable body and was followed by a
\* sleep of 100 ms, then 500 ms, and the call returned what its last answer
\* maps to: 401 and 403 a subscription error, 429 a rate-limit error with the
\* Retry-After of the response, another non-200 a request error with the
\* code, 200 with invalid JSON a request error, 200 with JSON the data
FetchRetriesTransportOnly ==
  \A k \in DOMAIN res :
    LET call == res[k]
        last == call.gets[Len(call.gets)]
    IN /\ Len(call.gets) \in 1..maxRetries
       /\ \A j \in 1..(Len(call.gets) - 1) :
            call.gets[j].err \/ (call.gets[j].status = 200 /\ call.gets[j].body = "unreadable")
       /\ call.slept = SubSeq(<<100, 500>>, 1, Len(call.gets) - 1)
       /\ last.status \in {401, 403} => call.ret.kind = "subscription"
       /\ last.status = 429 =>
            call.ret.kind = "rate_limit" /\ call.ret.retryAfter = last.retryAfter
       /\ last.status = 500 => call.ret.kind = "request" /\ call.ret.code = 500
       /\ (last.status = 200 /\ last.body = "invalid") => call.ret.kind = "request"
       /\ (last.status = 200 /\ last.body = "json") => call.ret.kind = "data"
       /\ (last.err \/ (last.status = 200 /\ last.body = "unreadable")) =>
            Len(call.gets) = maxRetries /\ call.ret.kind = "transport"

FetchThirdGetLimited ==
  \E k \in DOMAIN res :
    /\ Len(res[k].gets) = 3
    /\ res[k].gets[1].err
    /\ res[k].gets[3].status = 429
    /\ res[k].ret.retryAfter = 5

\* ---------------------------------------------------------------------------
\* IsRateLimited step by step, next to HandleRateLimitError.  arg is the one
\* IsRateLimited caller: where it is, and how often it holds rlt.mu for
\* reading and for writing.  A section under the write lock is one step, so
\* the lock is free for writing exactly when the caller holds neither side.
\* ---------------------------------------------------------------------------
NoCaller == [pc |-> "idle", readers |-> 0, writers |-> 0]

upgradeFrame ==
  <<now, requestTimes, rateLimitMaxRequests, rateLimitRemaining, rateLimitResetTime,
    rateLimitErrors, lightThrottleEnabled, lastEndpointCallTimes,
    lastHandle, errLog, prevThrottle, failSince,
    schedVars, engineVars, httpVars, writerVars, queueVars, loopVars, rolloverVars,
    shutdownVars, isRunning, lastReady, lastCall, res, poolVars, cacheVars>>

\* rlt.mu.RLock(); defer rlt.mu.RUnlock()
UpgradeRLock ==
  /\ arg.pc = "idle"
  /\ arg' = [arg EXCEPT !.pc = "check", !.readers = @ + 1]
  /\ UNCHANGED <<isRateLimited, retryAfter, ret, upgradeFrame>>

\* the test of the horizon under the read lock: RUnlock when it has passed,
\* else the return with the deferred RUnlock
UpgradeCheck ==
  /\ arg.pc = "check"
  /\ IF RetryElapsed
     THEN /\ arg' = [arg EXCEPT !.pc = "lock", !.readers = @ - 1]
          /\ UNCHANGED ret
     ELSE /\ arg' = [arg EXCEPT !.pc = "idle", !.readers = @ - 1]
          /\ ret' = [op |-> "IsRateLimited", val |-> isRateLimited, at |-> now]
  /\ UNCHANGED <<isRateLimited, retryAfter, upgradeFrame>>

\* rlt.mu.Lock(); isRateLimited = false; retryAfter = 0; rlt.mu.Unlock()
UpgradeLock ==
  /\ arg.pc = "lock"
  /\ arg.readers = 0
  /\ isRateLimited' = FALSE
  /\ retryAfter' = 0
  /\ arg' = [arg EXCEPT !.pc = "relock"]
  /\ UNCHANGED <<ret, upgradeFrame>>

\* rlt.mu.RLock(); return rlt.isRateLimited, with the deferred RUnlock
UpgradeReturn ==
  /\ arg.pc = "relock"
  /\ arg' = [arg EXCEPT !.pc = "idle"]
  /\ ret' = [op |-> "IsRateLimited", val |-> isRateLimited, at |-> now]
  /\ UNCHANGED <<isRateLimited, retryAfter, upgradeFrame>>

\* HandleRateLimitError takes the write lock: no reader holds the mutex
UpgradeHandle ==
  /\ arg.readers = 0
  /\ TrackerHandle

NextUpgrade ==
  \/ UpgradeRLock
  \/ UpgradeCheck
  \/ UpgradeLock
  \/ UpgradeReturn
  \/ UpgradeHandle
  \/ TrackerTick

InitUpgrade ==
  /\ now = 0
  /\ NewRateLimitTracker
  /\ InitObs
  /\ NewUnifiedAdaptiveScheduler
  /\ enabledTickers = << >>
  /\ tickerConfigs = << >>
  /\ displayedTickers = {}
  /\ marketOpen = FALSE
  /\ shuttingDown = FALSE
  /\ workers = << >>
  /\ queries = << >>
  /\ tickersInProgress = {}
  /\ pendingWrites = << >>
  /\ lastReq = << >>
  /\ windowLog = << >>
  /\ NewDataWriter
  /\ NewPriorityWriteQueue
  /\ NoLoop
  /\ NoRollover
  /\ NoShutdown
  /\ NewConnectionPool
  /\ NewQueryCache
  /\ arg = NoCaller
  /\ res = << >>

SpecUpgrade == InitUpgrade /\ [][NextUpgrade]_vars

\* C34: IsRateLimited clears the flag and the horizon only of a 429 whose
\* horizon has passed, whatever HandleRateLimitError does in between, and it
\* holds no side of the lock when it is not running
UpgradeRaceFree ==
  /\ [](arg.pc = "idle" => arg.readers = 0 /\ arg.writers = 0)
  /\ [][(retryAfter > 0 /\ retryAfter' = 0) => Unix >= retryAfter]_vars

\* ---------------------------------------------------------------------------
\* The request history under bursts: successful requests without headers are
\* recorded one by one; the clock jumps past the window between two bursts.
\* ---------------------------------------------------------------------------
MaxHistoryRecords == 2001
HistoryBurst == 1000
HistoryStepSecs == 61
MaxHistorySteps == 1

HistoryRecord ==
  /\ Len(requestTimes) < MaxHistoryRecords
  /\ RecordRequest(Unix, TRUE, NoHeaders)

HistoryTick ==
  /\ Unix + HistoryStepSecs <= MaxHistorySteps * HistoryStepSecs
  /\ Len(requestTimes) % HistoryBurst = 0
  /\ Advance(HistoryStepSecs * 1000)

NextHistory == HistoryRecord \/ HistoryTick

SpecHistory == InitTracker /\ [][NextHistory]_vars

\* C35: after every RecordRequest the history holds at most 2000 entries, and
\* a RecordRequest that finds more than 2000 keeps exactly the entries of the
\* last window seconds
HistoryCapped ==
  /\ [](Len(requestTimes) <= RequestHistoryCap)
  /\ [][(requestTimes' # requestTimes /\ Len(requestTimes) + 1 > RequestHistoryCap) =>
          \A k \in DOMAIN requestTimes' : requestTimes'[k] > Unix - RateLimitWindow]_vars

\* ---------------------------------------------------------------------------
\* The writer lock dw.mu, a sync.RWMutex.  Every operation of the writer is
\* the sequence of its lock operations, "work" standing for what it does
\* holding nothing (the transaction of flushDate).  arg gives each goroutine
\* its operation and its position in it; res is the mutex: the goroutine that
\* holds it for writing (0: none), the goroutines that hold it for reading,
\* and the goroutines blocked in Lock, which keep new readers out.
\* ---------------------------------------------------------------------------
MaxLockGoroutines == 3

\* WriteDataEntry evaluating shouldFlush before it unlocks
WriteDataEntryHoldsLock == <<"Lock", "RLock", "RUnlock", "Unlock">>

\* WriteDataEntry of a ticker with a flush history: the critical section,
\* then shouldFlush
WriteDataEntryLocks == <<"Lock", "Unlock", "RLock", "RUnlock">>

\* WriteDataEntry of a ticker without a flush history: no shouldFlush call
WriteDataEntryFirstLocks == <<"Lock", "Unlock">>

\* FlushTicker: nothing pending; all dates committed; a date failed and its
\* writes are re-appended
FlushTickerLocks ==
  {<<"Lock", "Unlock">>, <<"Lock", "Unlock", "work">>,
   <<"Lock", "Unlock", "work", "Lock", "Unlock">>}

\* FlushAllTickers and Stop: the ticker list under the read lock, then FlushTicker
FlushAllTickersLocks == {<<"RLock", "RUnlock">> \o f : f \in FlushTickerLocks}

\* checkAndFlushPending: the ticker list, shouldFlush, then FlushTicker or not
checkAndFlushPendingLocks ==
  {<<"RLock", "RUnlock", "RLock", "RUnlock">> \o f : f \in FlushTickerLocks \cup {<< >>}}

\* Close: the ticker list under the write lock, then FlushTicker
CloseLocks == {<<"Lock", "Unlock">> \o f : f \in FlushTickerLocks}

LockPrograms ==
  {WriteDataEntryLocks, WriteDataEntryFirstLocks} \cup FlushTickerLocks
    \cup FlushAllTickersLocks \cup checkAndFlushPendingLocks \cup CloseLocks

LockGoroutines == 1..MaxLockGoroutines

FreeMutex == [writer |-> 0, readers |-> {}, waiting |-> {}]

Returned(g) == arg[g].pc > Len(arg[g].ops)

NextOp(g) == arg[g].ops[arg[g].pc]

\* whether goroutine g can take its next step
CanStep(g) ==
  /\ ~Returned(g)
  /\ CASE NextOp(g) = "Lock" -> g \notin res.waiting \/ (res.writer = 0 /\ res.readers = {})
       [] NextOp(g) = "RLock" -> res.writer = 0 /\ res.waiting = {}
       [] OTHER -> TRUE

\* one step of goroutine g: Lock announces itself and then waits for the
\* readers and the writer to leave; RLock waits while a writer holds or
\* waits for the mutex
LockStep(g) ==
  /\ CanStep(g)
  /\ LET advance == [arg EXCEPT ![g].pc = @ + 1]
     IN CASE NextOp(g) = "Lock" /\ g \notin res.waiting ->
               /\ res' = [res EXCEPT !.waiting = @ \cup {g}]
               /\ UNCHANGED arg
          [] NextOp(g) = "Lock" /\ g \in res.waiting ->
               /\ res' = [res EXCEPT !.writer = g, !.waiting = @ \ {g}]
               /\ arg' = advance
          [] NextOp(g) = "Unlock" ->
               /\ res' = [res EXCEPT !.writer = 0]
               /\ arg' = advance
          [] NextOp(g) = "RLock" ->
               /\ res' = [res EXCEPT !.readers = @ \cup {g}]
               /\ arg' = advance
          [] NextOp(g) = "RUnlock" ->
               /\ res' = [res EXCEPT !.readers = @ \ {g}]
               /\ arg' = advance
          [] OTHER ->
               /\ arg' = advance
               /\ UNCHANGED res
  /\ UNCHANGED utilFrame

NextLock == \E g \in LockGoroutines : LockStep(g)

InitLock ==
  /\ UtilHost
  /\ NewConnectionPool
  /\ NewQueryCache
  /\ arg \in [LockGoroutines -> {[ops |-> p, pc |-> 1] : p \in LockPrograms}]
  /\ \E g \in LockGoroutines : arg[g].ops = WriteDataEntryLocks
  /\ res = FreeMutex

SpecLock == InitLock /\ [][NextLock]_vars

\* C36: a goroutine that reaches a read lock of the writer does not hold the
\* write lock, some goroutine can always take a step until all have finished,
\* and then nobody holds the lock
WriterLockDiscipline ==
  /\ \A g \in LockGoroutines :
       (~Returned(g) /\ NextOp(g) = "RLock") => res.writer # g
  /\ (\E g \in LockGoroutines : ~Returned(g)) => \E g \in LockGoroutines : CanStep(g)
  /\ (\A g \in LockGoroutines : Returned(g)) => res = FreeMutex

ShouldFlushWhileWriterWaits ==
  \E g \in LockGoroutines, h \in LockGoroutines :
    /\ arg[g].ops = WriteDataEntryLocks
    /\ arg[g].pc = 3
    /\ h \in res.waiting

\* ---------------------------------------------------------------------------
\* The tracker across a window: requests are recorded, then the clock jumps
\* past the window, then the tracker is asked.
\* ---------------------------------------------------------------------------
MaxWindowSteps == 2

WindowTick ==
  /\ Unix + HistoryStepSecs <= MaxWindowSteps * HistoryStepSecs
  /\ Advance(HistoryStepSecs * 1000)

NextWindow ==
  \/ WindowTick
  \/ TrackerRecord
  \/ IsRateLimited
  \/ CanMakeRequest

SpecWindow == InitTracker /\ [][NextWindow]_vars

\* the limit is known, no request failed, no 429 was handled, and every
\* recorded request is at least a window old
WindowIsEmpty ==
  /\ rateLimitMaxRequests > 0
  /\ ~failSince
  /\ lastHandle = NoHandle
  /\ requestTimes # << >>
  /\ \A k \in DOMAIN requestTimes : Unix - requestTimes[k] >= RateLimitWindow

\* C37: with max_requests known, once every recorded request is older than
\* the window, CanMakeRequest returns true and IsRateLimited returns false
OldRequestsDoNotCount ==
  (WindowIsEmpty /\ ret.at = now) =>
    /\ ret.op = "CanMakeRequest" => ret.val = TRUE
    /\ ret.op = "IsRateLimited" => ret.val = FALSE

\* ---------------------------------------------------------------------------
\* flushDate against the pool: a flush asks the pool for the handle of its
\* file, works on it and commits, while the cleanup timer fires.  arg gives
\* each flush where it is, its file and whether the handle it was given has
\* been closed since.
\* ---------------------------------------------------------------------------
MaxSweepFlushes == 2
SweepPaths == {1, 2}

SweepFlushes == 1..MaxSweepFlushes

NoFlushDate == [pc |-> "idle", path |-> 0, closed |-> FALSE]

\* dw.pool.GetConnection(dbPath, false) of flushDate: the pooled handle when
\* the file has one (an open handle answers the ping), else a new one or the
\* error that ends the flush
SweepGet(f) ==
  /\ arg[f].pc = "idle"
  /\ \E filepath \in SweepPaths, outcome \in {"pooled", "opened", "failed"} :
       /\ filepath \in DOMAIN connections => outcome = "pooled"
       /\ GetConnection(filepath, outcome)
       /\ arg' = [arg EXCEPT ![f] = [pc |-> IF outcome = "failed" THEN "failed" ELSE "holding",
                                     path |-> filepath, closed |-> FALSE]]
  /\ UNCHANGED <<now, res, cacheVars, hostFrame>>

\* the schema statements, the transaction and its commit on the handle; on a
\* handle that was closed they fail or not, as the driver decides
SweepCommit(f) ==
  /\ arg[f].pc = "holding"
  /\ \E pc \in {"committed", "failed"} :
       /\ pc = "failed" => arg[f].closed
       /\ arg' = [arg EXCEPT ![f].pc = pc]
  /\ UNCHANGED <<now, res, connections, cacheVars, hostFrame>>

\* the cleanup timer fires: cleanupIdleConnections
SweepCleanupTimer ==
  /\ Unix + SQLiteConnectionCleanupIntervalSeconds <= MaxPoolSecs
  /\ now' = now + SQLiteConnectionCleanupIntervalSeconds * 1000
  /\ cleanupIdleConnections(now')
  /\ arg' = [g \in SweepFlushes |->
               IF arg[g].pc = "holding" /\ arg[g].path \notin DOMAIN connections'
               THEN [arg[g] EXCEPT !.closed = TRUE] ELSE arg[g]]
  /\ UNCHANGED <<res, cacheVars, hostFrame>>

NextSweep ==
  \/ \E f \in SweepFlushes : SweepGet(f)
  \/ \E f \in SweepFlushes : SweepCommit(f)
  \/ SweepCleanupTimer

InitSweep ==
  /\ UtilHost
  /\ NewConnectionPool
  /\ NewQueryCache
  /\ arg = [f \in SweepFlushes |-> NoFlushDate]
  /\ res = << >>

SpecSweep == InitSweep /\ [][NextSweep]_vars

\* C38: the handle of a flush that is between its GetConnection and its
\* commit has not been closed by the idle sweep
SweepSparesHandleInUse ==
  \A f \in SweepFlushes :
    arg[f].pc = "holding" => ~arg[f].closed

\* the tickers that have a worker goroutine which has not left
\* runTickerGoroutine and has not been told to stop
LiveWorkers ==
  {goroutines[g].ticker : g \in {h \in DOMAIN goroutines :
                                   /\ goroutines[h].pc \notin {"panicked", "exited"}
                                   /\ ~goroutines[h].stopped}}

\* C39: the tickers registered in tickerGoroutines, which GetActiveTickerCount
\* counts and UpdateTickers skips, are the tickers with a live worker goroutine
RegistryMatchesLive == DOMAIN tickerGoroutines = LiveWorkers

\* ---------------------------------------------------------------------------
\* The lock mts.mu of MasterTimerScheduler, a sync.RWMutex, with the lock
\* operations of its methods.  Goroutine 1 calls Start, on an empty or a
\* non-empty list of enabled tickers; the others run the timer loop or call
\* UpdateTickers, Stop or IsRunning.
\* ---------------------------------------------------------------------------
\* checkAllTickers: the copy of the list under the read lock, then the
\* ShouldFetchTicker calls and the callback
checkAllTickersLocks == <<"RLock", "RUnlock", "work">>

\* Start with enabled tickers: the deferred Unlock runs after the immediate
\* checkAllTickers
MasterStartLocks == <<"Lock", "work">> \o checkAllTickersLocks \o <<"Unlock">>

\* Start without enabled tickers
MasterStartEmptyLocks == <<"Lock", "work", "Unlock">>

\* run: one tick, or the tenth tick with its log line, then checkAllTickers
runLocks == {checkAllTickersLocks, <<"RLock", "RUnlock">> \o checkAllTickersLocks}

\* UpdateTickers and Stop; IsRunning
MasterWriteLocks == <<"Lock", "Unlock">>
MasterReadLocks == <<"RLock", "RUnlock">>

\* the goroutine that calls Start
MasterStarter == CHOOSE g \in LockGoroutines : \A h \in LockGoroutines : g <= h

InitMaster ==
  /\ UtilHost
  /\ NewConnectionPool
  /\ NewQueryCache
  /\ arg \in [LockGoroutines ->
                {[ops |-> p, pc |-> 1] :
                   p \in {MasterStartLocks, MasterStartEmptyLocks, MasterWriteLocks,
                          MasterReadLocks} \cup runLocks}]
  /\ arg[MasterStarter].ops \in {MasterStartLocks, MasterStartEmptyLocks}
  /\ \A g \in LockGoroutines \ {MasterStarter} :
       arg[g].ops \notin {MasterStartLocks, MasterStartEmptyLocks}
  /\ res = FreeMutex

SpecMaster == InitMaster /\ [][NextLock]_vars

\* C40: Start, whatever the list of enabled tickers, is never waiting for a
\* lock that it holds itself, and so returns
MasterStartReturns ==
  (~Returned(MasterStarter) /\ NextOp(MasterStarter) \in {"Lock", "RLock"}) =>
    /\ res.writer # MasterStarter
    /\ MasterStarter \notin res.readers

====
